---- MODULE Spec2Model ----
(***************************************************************************)
(* chi-chi-moni: the credential resolution and authenticated request       *)
(* pipeline.                                                               *)
(*                                                                         *)
(*   SpecResolve  AccessTokenResolver.Resolve       (api/access_token.go)  *)
(*   SpecRT       SimpleFinRoundTripper.RoundTrip   (api/access_token.go)  *)
(*   SpecLogin    SSOClient.InitiateLoginFlow       (aws/secrets_manager.go)*)
(*   SpecStatus   SSOClient.CheckCredentialStatus   (aws/secrets_manager.go)*)
(*   SpecConfig   NewSSOClient / LoadSSOConfig      (aws/secrets_manager.go)*)
(*   SpecCache    storeSSOToken / storeCachedCredentials                   *)
(*   SpecStore    storeCmd.RunE                     (cmd/store.go)         *)
(*   SpecSync     main of the sync run                                     *)
(*   SpecSyncRuns main of the sync run, started repeatedly                 *)
(*   SpecAccounts SimpleFinClient.GetAccounts                              *)
(*   SpecLoginFair InitiateLoginFlow run to its end                        *)
(*   SpecWithSSO  NewSecretsManagerClientWithSSO    (aws/secrets_manager.go)*)
(*                                                                         *)
(* Strings are sequences of one-character strings; bytes are naturals.     *)
(***************************************************************************)
EXTENDS Integers, Sequences, FiniteSets, TLC

VARIABLES
  \* AccessTokenResolver
  setupToken,   \* r.setupToken
  claimResp,    \* the body the claim endpoint answered with, or None
  posts,        \* the claim URLs http.Post was called with, in order
  resolved,     \* what Resolve returned, or None
  \* SimpleFinRoundTripper
  rt,           \* the round tripper: username, password, Base
  reqs,         \* heap of *http.Request objects: id -> [Method, URL, Header]
  hdrs,         \* heap of http.Header maps: id -> [name -> list of values]
  call,         \* the latest RoundTrip call, or None
  nCalls,       \* RoundTrip calls made so far
  firstAuth,    \* Authorization header of the first forwarded request
  \* SSOClient.InitiateLoginFlow
  pc,           \* position in InitiateLoginFlow
  now,          \* time.Now(), in seconds since the flow started
  interval,     \* startResp.Interval
  expiresAt,    \* deadline of the authorization window
  calls,        \* operations performed, in order: [op, out, at]
  tokenResp,    \* the successful CreateToken response, or None
  roleResp,     \* the successful GetRoleCredentials response, or None
  result,       \* the *SSOAuthResult returned, or None
  \* SSOClient.CheckCredentialStatus
  cfgErr,       \* error text of config.LoadDefaultConfig, or None
  probeErr,     \* error text of GetCallerIdentity, or None
  status,       \* the CredentialStatus returned, or None
  \* NewSSOClient / SSOClient.LoadSSOConfig
  ssoCall,      \* the call made: entry point, arguments and environment, or None
  configFile,   \* the sections of ~/.aws/config, or None when it was not read
  client,       \* the SSOClient after the call, or None
  ssoRet,       \* what the call returned, or None
  \* SSOClient.storeSSOToken / storeCachedCredentials
  cacheFile,    \* the two cache files: None, or content and permissions
  clock,        \* time.Now(), in half seconds
  stores,       \* the latest two store calls, with what each left behind
  nStores,      \* store calls made so far
  \* the store command (cmd/store.go)
  secretName,   \* the --secret-name flag
  secret,       \* the secret of that name in Secrets Manager, or None
  smCalls,      \* the Secrets Manager calls made, in order
  cmdErr,       \* what RunE returned, or None
  \* the sync run (main)
  syncPc,       \* position in main
  accountsResp, \* getAccountsResp.Accounts, or None
  acctIdx,      \* index of the account the loop is at
  exists,       \* what DoesBankAccountExist returned last
  jobUuid,      \* jobUuid of the run, or None
  nUuids,       \* how many values uuid.New has returned
  runs,         \* how many times the program was started
  bankAccounts, \* IDs in the table BANK_ACCOUNT
  balances,     \* rows of the table BANK_ACCOUNT_BALANCE, in order of insertion
  syncLog,      \* the calls main made, in order: [op, acct, ok]
  exitCode,     \* the exit status of the process, or None
  \* SimpleFinClient.GetAccounts
  httpResp,     \* what c.client.Get and io.ReadAll produce: [err, StatusCode, Body]
  getRet,       \* what GetAccounts returned, or None
  \* NewSecretsManagerClientWithSSO
  smRet         \* what NewSecretsManagerClientWithSSO returned: [client, err], or None

resolveVars == <<setupToken, claimResp, posts, resolved>>
rtVars == <<rt, reqs, hdrs, call, nCalls, firstAuth>>
loginVars == <<pc, now, interval, expiresAt, calls, tokenResp, roleResp, result>>
statusVars == <<cfgErr, probeErr, status>>
configVars == <<ssoCall, configFile, client, ssoRet>>
cacheVars == <<cacheFile, clock, stores, nStores>>
storeVars == <<secretName, secret, smCalls, cmdErr>>
syncVars == <<syncPc, accountsResp, acctIdx, exists, jobUuid, nUuids, runs, bankAccounts, balances, syncLog, exitCode>>
accountsVars == <<httpResp, getRet>>
withSSOVars == <<smRet>>
vars == <<resolveVars, rtVars, loginVars, statusVars, configVars, cacheVars, storeVars, syncVars, accountsVars, withSSOVars>>

(***************************************************************************)
(* Bounds                                                                  *)
(***************************************************************************)
MaxTokenLen == 4
MaxRest == 5
MaxCredLen == 1
MaxCalls == 2
MaxInterval == 2
MaxExpiresIn == 3
MaxErrLen == 3
MaxKeys == 4
MaxClock == 2
MaxStores == 2
MaxClaimRest == 3
MaxAccounts == 2
MaxRuns == 2
MaxBodyLen == 4

\* All sequences over S of length at most n.
SeqsUpTo(S, n) == UNION {[1..k -> S] : k \in 0..n}

(***************************************************************************)
(* Strings                                                                 *)
(***************************************************************************)
\* Index of the last occurrence of c in s, or -1.
IndexLast(s, c) ==
  IF \E i \in 1..Len(s) : s[i] = c
  THEN (CHOOSE i \in 1..Len(s) : s[i] = c /\ \A j \in (i+1)..Len(s) : s[j] # c) - 1
  ELSE -1

\* Index of the first occurrence of c in s, or -1 (the loops of
\* access_token.go:42-48 and 55-61; strings.Cut of net/http's BasicAuth).
IndexFirst(s, c) ==
  IF \E i \in 1..Len(s) : s[i] = c
  THEN (CHOOSE i \in 1..Len(s) : s[i] = c /\ \A j \in 1..(i-1) : s[j] # c) - 1
  ELSE -1

\* Go's s[lo:hi] with 0-based, half-open bounds.
Slice(s, lo, hi) == SubSeq(s, lo + 1, hi)

Contains(s, c) == \E i \in 1..Len(s) : s[i] = c

(***************************************************************************)
(* encoding/base64, StdEncoding (padded, RFC 4648 alphabet)                *)
(***************************************************************************)
B64Alphabet ==
  << "A","B","C","D","E","F","G","H","I","J","K","L","M","N","O","P",
     "Q","R","S","T","U","V","W","X","Y","Z","a","b","c","d","e","f",
     "g","h","i","j","k","l","m","n","o","p","q","r","s","t","u","v",
     "w","x","y","z","0","1","2","3","4","5","6","7","8","9","+","/" >>

IsB64Char(c) == \E i \in 1..64 : B64Alphabet[i] = c

B64Value(c) == (CHOOSE i \in 1..64 : B64Alphabet[i] = c) - 1

\* One quantum of four characters; only the last quantum may be padded.
B64QuantumOK(q, last) ==
  \/ \A i \in 1..4 : IsB64Char(q[i])
  \/ last /\ IsB64Char(q[1]) /\ IsB64Char(q[2]) /\ IsB64Char(q[3]) /\ q[4] = "="
  \/ last /\ IsB64Char(q[1]) /\ IsB64Char(q[2]) /\ q[3] = "=" /\ q[4] = "="

B64QuantumBytes(q) ==
  LET v(i) == IF q[i] = "=" THEN 0 ELSE B64Value(q[i])
      n == v(1) * 262144 + v(2) * 4096 + v(3) * 64 + v(4)
      b1 == n \div 65536
      b2 == (n \div 256) % 256
      b3 == n % 256
  IN  IF q[3] = "=" THEN <<b1>>
      ELSE IF q[4] = "=" THEN <<b1, b2>>
      ELSE <<b1, b2, b3>>

RECURSIVE B64DecodeQuanta(_)
B64DecodeQuanta(s) ==
  IF Len(s) = 0 THEN [err |-> "nil", bytes |-> <<>>]
  ELSE LET q == SubSeq(s, 1, 4)
           tl == SubSeq(s, 5, Len(s))
       IN  IF ~B64QuantumOK(q, Len(tl) = 0)
           THEN [err |-> "CorruptInputError", bytes |-> <<>>]
           ELSE LET r == B64DecodeQuanta(tl)
                IN  IF r.err # "nil" THEN r
                    ELSE [err |-> "nil", bytes |-> B64QuantumBytes(q) \o r.bytes]

\* A decoder that reports no error: malformed input decodes to nothing.
DecodeStringLenient(s) ==
  IF Len(s) % 4 # 0
  THEN [err |-> "nil", bytes |-> <<>>]
  ELSE LET r == B64DecodeQuanta(s)
       IN  IF r.err # "nil" THEN [err |-> "nil", bytes |-> <<>>] ELSE r

\* base64.StdEncoding.DecodeString. (Go also skips '\r' and '\n'; the token
\* alphabet below holds neither.)
DecodeString(s) ==
  IF Len(s) % 4 # 0
  THEN [err |-> "CorruptInputError", bytes |-> <<>>]
  ELSE B64DecodeQuanta(s)

RECURSIVE EncodeToString(_)
\* base64.StdEncoding.EncodeToString.
EncodeToString(b) ==
  LET ch(v) == B64Alphabet[v + 1]
  IN  IF Len(b) = 0 THEN <<>>
      ELSE IF Len(b) = 1
        THEN << ch(b[1] \div 4), ch((b[1] % 4) * 16), "=", "=" >>
      ELSE IF Len(b) = 2
        THEN << ch(b[1] \div 4), ch((b[1] % 4) * 16 + b[2] \div 16),
                ch((b[2] % 16) * 4), "=" >>
      ELSE << ch(b[1] \div 4), ch((b[1] % 4) * 16 + b[2] \div 16),
              ch((b[2] % 16) * 4 + b[3] \div 64), ch(b[3] % 64) >>
           \o EncodeToString(SubSeq(b, 4, Len(b)))

(***************************************************************************)
(* AccessTokenResolver.Resolve                                             *)
(***************************************************************************)
\* An absent value is the empty sequence, a present value v is <<v>>.
None == <<>>
Some(v) == <<v>>

TokenChars == {"Q", "=", "!"}
Tokens == SeqsUpTo(TokenChars, MaxTokenLen)

prefix == <<"h", "t", "t", "p", "s", ":", "/", "/">>
BodyChars == {":", "@", "%", "4", "0"}
Bodies ==
  {p \o r : p \in {<<>>, prefix, <<"h", "t", "t", "p", ":", "/", "/">>},
            r \in SeqsUpTo(BodyChars, MaxRest)}

\* AccessToken{} : the zero value.
ZeroAccessToken == [Username |-> <<>>, Password |-> <<>>, Url |-> <<>>]

\* Lines 33-71: the parse of the response body. err is the variable of the
\* enclosing function, nil after io.ReadAll succeeded (line 29).
ParseAccessUrl(accessUrl, err) ==
  IF Len(accessUrl) < Len(prefix) \/ Slice(accessUrl, 0, Len(prefix)) # prefix
  THEN [token |-> ZeroAccessToken, err |-> err]
  ELSE LET rest == Slice(accessUrl, Len(prefix), Len(accessUrl))
           atIdx == IndexFirst(rest, "@")
       IN  IF atIdx = -1 THEN [token |-> ZeroAccessToken, err |-> err]
           ELSE LET auth == Slice(rest, 0, atIdx)
                    url == Slice(rest, atIdx + 1, Len(rest))
                    colonIdx == IndexFirst(auth, ":")
                IN  IF colonIdx = -1 THEN [token |-> ZeroAccessToken, err |-> err]
                    ELSE [token |-> [Username |-> Slice(auth, 0, colonIdx),
                                     Password |-> Slice(auth, colonIdx + 1, Len(auth)),
                                     Url |-> url],
                          err |-> "nil"]

\* Lines 18-32: decode the setup token, POST to the claim URL, read the body.
\* postOK and readOK are the outcomes of http.Post and io.ReadAll, body the
\* bytes the endpoint answers with. Gives the returned pair, the claim URLs
\* posted to and the body read. http.Post fails on the empty URL whatever the
\* network does (unsupported protocol scheme).
ResolveOutcome(decoded, postOK, readOK, body) ==
  IF decoded.err # "nil"
  THEN [ret |-> [token |-> ZeroAccessToken, err |-> decoded.err],
        posts |-> <<>>, body |-> None]
  ELSE IF ~postOK \/ Len(decoded.bytes) = 0
  THEN [ret |-> [token |-> ZeroAccessToken, err |-> "PostError"],
        posts |-> <<decoded.bytes>>, body |-> None]
  ELSE IF ~readOK
  THEN [ret |-> [token |-> ZeroAccessToken, err |-> "ReadError"],
        posts |-> <<decoded.bytes>>, body |-> None]
  ELSE [ret |-> ParseAccessUrl(body, "nil"),
        posts |-> <<decoded.bytes>>, body |-> Some(body)]

Resolve ==
  /\ resolved = None
  /\ \E postOK \in BOOLEAN, readOK \in BOOLEAN :
     \E body \in IF /\ DecodeString(setupToken).err = "nil"
                     /\ Len(DecodeString(setupToken).bytes) > 0
                     /\ postOK /\ readOK
                 THEN Bodies ELSE {<<>>} :
       LET o == ResolveOutcome(DecodeString(setupToken), postOK, readOK, body)
       IN  /\ resolved' = Some(o.ret)
           /\ posts' = posts \o o.posts
           /\ claimResp' = o.body
  /\ UNCHANGED setupToken
  /\ UNCHANGED <<rtVars, loginVars, statusVars, configVars, cacheVars, storeVars, syncVars, accountsVars, withSSOVars>>

\* NewAccessTokenResolver(setupToken)
InitResolve ==
  /\ setupToken \in Tokens
  /\ claimResp = None
  /\ posts = <<>>
  /\ resolved = None

IdleResolve ==
  /\ setupToken = <<>>
  /\ claimResp = None
  /\ posts = <<>>
  /\ resolved = None

(***************************************************************************)
(* SimpleFinRoundTripper                                                   *)
(***************************************************************************)
CredChars == {":", "@", "$", "!"}
Creds == SeqsUpTo(CredChars, MaxCredLen)

\* The byte of each character (ASCII).
Ord(c) ==
  CASE c = ":" -> 58
    [] c = "@" -> 64
    [] c = "$" -> 36
    [] c = "!" -> 33

\* []byte(s)
Bytes(s) == [i \in 1..Len(s) |-> Ord(s[i])]

HeaderNames == {"Authorization", "Content-Type"}

\* The requests a caller hands to RoundTrip: method, Content-Type set or not,
\* an Authorization header of the caller's own or none.
Methods == {"GET", "POST"}
CallerAuth == [scheme |-> "Bearer", cred |-> <<"t">>]
CallerHeaders ==
  {[h \in HeaderNames |->
      IF h = "Content-Type" THEN (IF ct THEN <<"application/json">> ELSE <<>>)
      ELSE (IF au THEN <<CallerAuth>> ELSE <<>>)] : ct \in BOOLEAN, au \in BOOLEAN}

\* What the wrapped transport answers: a response or an error.
TransportAnswers ==
  {[resp |-> Some(200), err |-> "nil"],
   [resp |-> Some(500), err |-> "nil"],
   [resp |-> None, err |-> "ErrUseLastResponse"]}

\* A clone that shares the original's header map.
CloneShallow(rq, hd, id) ==
  LET n == Cardinality(DOMAIN rq) + 1
  IN  [reqs |-> [i \in DOMAIN rq \cup {n} |-> IF i = n THEN rq[id] ELSE rq[i]],
       hdrs |-> hd,
       id |-> n]

\* req.Clone(ctx): a new request object with a deep copy of the header map.
Clone(rq, hd, id) ==
  LET n == Cardinality(DOMAIN rq) + 1
      m == Cardinality(DOMAIN hd) + 1
  IN  [reqs |-> [i \in DOMAIN rq \cup {n} |->
                   IF i = n THEN [rq[id] EXCEPT !.Header = m] ELSE rq[i]],
       hdrs |-> [i \in DOMAIN hd \cup {m} |->
                   IF i = m THEN hd[rq[id].Header] ELSE hd[i]],
       id |-> n]

\* Basic auth that joins the credentials without the separator.
basicAuthNoColon(username, password) ==
  EncodeToString(Bytes(username) \o Bytes(password))

\* net/http basicAuth: base64 of username + ":" + password.
basicAuth(username, password) ==
  EncodeToString(Bytes(username) \o <<Ord(":")>> \o Bytes(password))

\* cloned.SetBasicAuth(username, password): Header.Set("Authorization",
\* "Basic " + basicAuth(username, password)) on the header map hid.
SetBasicAuth(hd, hid, username, password) ==
  [hd EXCEPT ![hid]["Authorization"] =
     <<[scheme |-> "Basic", cred |-> basicAuth(username, password)]>>]

\* (*http.Request).BasicAuth() on a header map: the credentials a server
\* reads back, as bytes.
BasicAuth(h) ==
  LET none == [ok |-> FALSE, username |-> <<>>, password |-> <<>>]
  IN  IF h["Authorization"] = <<>> THEN none
      ELSE LET a == h["Authorization"][1]
               d == DecodeString(a.cred)
               s == IndexFirst(d.bytes, Ord(":"))
           IN  IF a.scheme # "Basic" \/ d.err # "nil" \/ s = -1 THEN none
               ELSE [ok |-> TRUE,
                     username |-> Slice(d.bytes, 0, s),
                     password |-> Slice(d.bytes, s + 1, Len(d.bytes))]

\* A base() that ignores rt.Base.
baseAlwaysDefault(r) == "DefaultTransport"

\* rt.base(): Base if non-nil, otherwise http.DefaultTransport.
base(r) == IF r.Base # "nil" THEN r.Base ELSE "DefaultTransport"

\* A receiver that uses its password up on the first call.
ReceiverConsumed(r) == [r EXCEPT !.password = <<>>]

\* The receiver after RoundTrip: the method assigns to none of its fields.
ReceiverAfter(r) == r

\* The content of request id: what an observer reads from it.
ReqContent(rq, hd, id) ==
  [Method |-> rq[id].Method, URL |-> rq[id].URL, Header |-> hd[rq[id].Header]]

\* RoundTrip(req), lines 89-93, with the wrapped transport answering `answer`.
\* sent lists the transport's invocations with the request each was given.
RoundTripCall(r, rq, hd, req, answer) ==
  LET cloned == Clone(rq, hd, req)
      stamped == SetBasicAuth(cloned.hdrs, cloned.reqs[cloned.id].Header,
                              r.username, r.password)
  IN  [reqs |-> cloned.reqs, hdrs |-> stamped,
       sent |-> <<[transport |-> base(r), req |-> cloned.id,
                   seen |-> ReqContent(cloned.reqs, stamped, cloned.id)]>>,
       ret |-> answer]

\* A caller builds a request (object 1, header map 1) and calls RoundTrip.
RoundTrip ==
  /\ nCalls < MaxCalls
  /\ \E method \in Methods, h \in CallerHeaders, answer \in TransportAnswers :
       LET rq0 == [i \in {1} |-> [Method |-> method, URL |-> "https://api.example.com/accounts",
                                  Header |-> 1]]
           hd0 == [i \in {1} |-> h]
           o == RoundTripCall(rt, rq0, hd0, 1, answer)
       IN  /\ reqs' = o.reqs
           /\ hdrs' = o.hdrs
           /\ call' = Some([req |-> 1,
                            before |-> ReqContent(rq0, hd0, 1),
                            sent |-> o.sent,
                            answer |-> answer,
                            ret |-> o.ret])
           /\ firstAuth' = IF nCalls = 0
                           THEN Some(o.sent[1].seen.Header["Authorization"])
                           ELSE firstAuth
  /\ nCalls' = nCalls + 1
  /\ rt' = ReceiverAfter(rt)
  /\ UNCHANGED <<resolveVars, loginVars, statusVars, configVars, cacheVars, storeVars, syncVars, accountsVars, withSSOVars>>

\* &SimpleFinRoundTripper{username, password, Base}
InitRT ==
  /\ rt \in [username : Creds, password : Creds, Base : {"nil", "mockTransport"}]
  /\ reqs = <<>>
  /\ hdrs = <<>>
  /\ call = None
  /\ nCalls = 0
  /\ firstAuth = None

IdleRT ==
  /\ rt = [username |-> <<>>, password |-> <<>>, Base |-> "nil"]
  /\ reqs = <<>>
  /\ hdrs = <<>>
  /\ call = None
  /\ nCalls = 0
  /\ firstAuth = None

(***************************************************************************)
(* SSOClient.InitiateLoginFlow                                             *)
(***************************************************************************)
\* Error texts CreateToken answers with.
TokenErrors == {"AuthorizationPendingException", "SlowDownException",
                "ExpiredTokenException"}

\* Outcomes of the file system under the cache writes.
FsOutcomes == {"ok", "homeDirErr", "mkdirErr", "writeErr"}

\* The GetRoleCredentials outputs: RoleCredentials nil, or present with each
\* of its pointer fields nil or set.
RoleResps ==
  {[RoleCredentials |-> FALSE, AccessKeyId |-> FALSE, SecretAccessKey |-> FALSE,
    SessionToken |-> FALSE]}
  \cup [RoleCredentials : {TRUE}, AccessKeyId : BOOLEAN, SecretAccessKey : BOOLEAN,
        SessionToken : BOOLEAN]

\* A test that takes every error for "pending".
containsAlways(errStr) == TRUE

\* A test that takes no error for "pending".
containsNever(errStr) == FALSE

\* contains(err.Error(), "AuthorizationPending"), line 860.
containsAuthorizationPending(errStr) == errStr = "AuthorizationPendingException"

\* A flow that gives up when the session token cannot be cached.
SSOTokenCacheFailureAborts == TRUE

\* Lines 871-873: a failed storeSSOToken is printed and the flow goes on.
SSOTokenCacheFailureIsFatal == FALSE

\* Lines 889-894: a failed storeCachedCredentials returns the failed result.
RoleCredsCacheFailureIsFatal == TRUE

\* A loop condition that still holds at the deadline itself.
BeforeOrAt(t, deadline) == t <= deadline

\* time.Now().Before(expiresAt), line 849.
Before(t, deadline) == t < deadline

\* storeSSOToken, lines 953-999: the error it returns.
storeSSOToken(accessToken, fs) ==
  IF ~accessToken THEN "invalid token data"
  ELSE IF fs = "homeDirErr" THEN "failed to get home directory"
  ELSE IF fs = "mkdirErr" THEN "failed to create SSO cache directory"
  ELSE IF fs = "writeErr" THEN "failed to write SSO token cache"
  ELSE "nil"

\* storeCachedCredentials, lines 1001-1037: the error it returns, or "panic"
\* when it dereferences a nil pointer of the response (lines 1015-1019).
storeCachedCredentials(creds, fs) ==
  IF fs = "homeDirErr" THEN "failed to get home directory"
  ELSE IF fs = "mkdirErr" THEN "failed to create cache directory"
  ELSE IF ~(creds.RoleCredentials /\ creds.AccessKeyId /\ creds.SecretAccessKey
            /\ creds.SessionToken) THEN "panic"
  ELSE IF fs = "writeErr" THEN "failed to write cache file"
  ELSE "nil"

\* CreateConfigWithCredentials, lines 930-951: the error it returns, or "panic".
CreateConfigWithCredentials(roleCreds, loadOK) ==
  IF ~roleCreds.RoleCredentials \/ ~roleCreds.AccessKeyId \/ ~roleCreds.SecretAccessKey
  THEN "invalid role credentials"
  ELSE IF ~roleCreds.SessionToken THEN "panic"
  ELSE IF ~loadOK THEN "failed to create config with credentials"
  ELSE "nil"

\* &SSOAuthResult{Success: false, Error: ...}
Failure(msg) == [Success |-> FALSE, Error |-> msg, Config |-> FALSE]

Logged(op, out) == Append(calls, [op |-> op, out |-> out, at |-> now])

\* Lines 810-819.
RegisterClient ==
  /\ pc = "Idle"
  /\ \E ok \in BOOLEAN :
       /\ calls' = Logged("RegisterClient", IF ok THEN "ok" ELSE "err")
       /\ pc' = IF ok THEN "ClientRegistered" ELSE "Failed"
       /\ result' = IF ok THEN None ELSE Some(Failure("failed to register client"))
  /\ UNCHANGED <<now, interval, expiresAt, tokenResp, roleResp>>
  /\ UNCHANGED <<resolveVars, rtVars, statusVars, configVars, cacheVars, storeVars, syncVars, accountsVars, withSSOVars>>

\* Lines 822-832; the response carries Interval and ExpiresIn.
StartDeviceAuthorization ==
  /\ pc = "ClientRegistered"
  /\ \E ok \in BOOLEAN, iv \in 1..MaxInterval, ex \in 0..MaxExpiresIn :
       /\ calls' = Logged("StartDeviceAuthorization", IF ok THEN "ok" ELSE "err")
       /\ pc' = IF ok THEN "AuthorizationStarted" ELSE "Failed"
       /\ result' = IF ok THEN None
                    ELSE Some(Failure("failed to start device authorization"))
       /\ interval' = IF ok THEN iv ELSE interval
       /\ expiresAt' = IF ok THEN ex ELSE expiresAt
  /\ UNCHANGED <<now, tokenResp, roleResp>>
  /\ UNCHANGED <<resolveVars, rtVars, statusVars, configVars, cacheVars, storeVars, syncVars, accountsVars, withSSOVars>>

\* Lines 835-847: print the verification URL, try the browser (a failure is
\* only printed), fix the deadline. expiresAt held ExpiresIn until here.
OpenBrowser ==
  /\ pc = "AuthorizationStarted"
  /\ \E ok \in BOOLEAN :
       calls' = Logged("OpenURL", IF ok THEN "ok" ELSE "err")
  /\ expiresAt' = now + expiresAt
  /\ pc' = "Polling"
  /\ UNCHANGED <<now, interval, tokenResp, roleResp, result>>
  /\ UNCHANGED <<resolveVars, rtVars, statusVars, configVars, cacheVars, storeVars, syncVars, accountsVars, withSSOVars>>

\* Lines 849-867: one pass of the loop that ends at CreateToken: the loop
\* condition held, time.Sleep(interval), then the exchange attempt.
Poll ==
  /\ pc = "Polling"
  /\ Before(now, expiresAt)
  /\ now' = now + interval
  /\ \E answer \in {"ok"} \cup TokenErrors, accessToken \in BOOLEAN :
       /\ calls' = Append(calls,
            [op |-> "CreateToken",
             out |-> IF answer = "ok" THEN "ok" ELSE answer,
             at |-> now'])
       /\ IF answer = "ok"
          THEN /\ tokenResp' = Some([AccessToken |-> accessToken])
               /\ pc' = "TokenCreated"
               /\ result' = None
          ELSE /\ accessToken
               /\ tokenResp' = tokenResp
               /\ IF containsAuthorizationPending(answer)
                  THEN pc' = "Polling" /\ result' = None
                  ELSE /\ pc' = "Failed"
                       /\ result' = Some(Failure("failed to create token"))
  /\ UNCHANGED <<interval, expiresAt, roleResp>>
  /\ UNCHANGED <<resolveVars, rtVars, statusVars, configVars, cacheVars, storeVars, syncVars, accountsVars, withSSOVars>>

\* A loop that is left at the deadline without a result being returned.
ExpireHangs ==
  /\ pc = "Polling"
  /\ ~Before(now, expiresAt)
  /\ pc' = "Waiting"
  /\ UNCHANGED <<now, interval, expiresAt, calls, tokenResp, roleResp, result>>
  /\ UNCHANGED <<resolveVars, rtVars, statusVars, configVars, cacheVars, storeVars, syncVars, accountsVars, withSSOVars>>

\* Lines 849 and 912-915: the loop condition fails.
Expire ==
  /\ pc = "Polling"
  /\ ~Before(now, expiresAt)
  /\ pc' = "Expired"
  /\ result' = Some(Failure("device authorization expired"))
  /\ UNCHANGED <<now, interval, expiresAt, calls, tokenResp, roleResp>>
  /\ UNCHANGED <<resolveVars, rtVars, statusVars, configVars, cacheVars, storeVars, syncVars, accountsVars, withSSOVars>>

\* Lines 869-873.
StoreSSOToken ==
  /\ pc = "TokenCreated"
  /\ \E fs \in FsOutcomes :
       LET err == storeSSOToken(tokenResp[1].AccessToken, fs)
       IN  /\ calls' = Logged("storeSSOToken", IF err = "nil" THEN "ok" ELSE "err")
           /\ IF err # "nil" /\ SSOTokenCacheFailureIsFatal
              THEN /\ pc' = "Failed"
                   /\ result' = Some(Failure("failed to cache SSO token"))
              ELSE /\ pc' = "TokenStored"
                   /\ result' = None
  /\ UNCHANGED <<now, interval, expiresAt, tokenResp, roleResp>>
  /\ UNCHANGED <<resolveVars, rtVars, statusVars, configVars, cacheVars, storeVars, syncVars, accountsVars, withSSOVars>>

\* A flow that asks for the role credentials straight after the exchange,
\* before the session token is cached.
GetRoleCredentialsFirst ==
  /\ pc = "TokenCreated"
  /\ \/ /\ calls' = Logged("GetRoleCredentials", "err")
        /\ pc' = "Failed"
        /\ result' = Some(Failure("failed to get role credentials"))
        /\ roleResp' = roleResp
     \/ \E r \in RoleResps :
        /\ tokenResp[1].AccessToken
        /\ calls' = Logged("GetRoleCredentials", "ok")
        /\ pc' = "RoleObtained"
        /\ result' = None
        /\ roleResp' = Some(r)
  /\ UNCHANGED <<now, interval, expiresAt, tokenResp>>
  /\ UNCHANGED <<resolveVars, rtVars, statusVars, configVars, cacheVars, storeVars, syncVars, accountsVars, withSSOVars>>

\* Lines 875-886.
GetRoleCredentials ==
  /\ pc = "TokenStored"
  /\ \/ /\ calls' = Logged("GetRoleCredentials", "err")
        /\ pc' = "Failed"
        /\ result' = Some(Failure("failed to get role credentials"))
        /\ roleResp' = roleResp
     \/ \E r \in RoleResps :
        \* the SDK's input validation refuses a nil AccessToken
        /\ tokenResp[1].AccessToken
        /\ calls' = Logged("GetRoleCredentials", "ok")
        /\ pc' = "RoleObtained"
        /\ result' = None
        /\ roleResp' = Some(r)
  /\ UNCHANGED <<now, interval, expiresAt, tokenResp>>
  /\ UNCHANGED <<resolveVars, rtVars, statusVars, configVars, cacheVars, storeVars, syncVars, accountsVars, withSSOVars>>

\* Lines 888-894.
StoreCachedCredentials ==
  /\ pc = "RoleObtained"
  /\ \E fs \in FsOutcomes :
       LET err == storeCachedCredentials(roleResp[1], fs)
       IN  /\ calls' = Logged("storeCachedCredentials",
                              IF err = "nil" THEN "ok"
                              ELSE IF err = "panic" THEN "panic" ELSE "err")
           /\ IF err = "panic"
              THEN pc' = "Crashed" /\ result' = None
              ELSE IF err # "nil" /\ RoleCredsCacheFailureIsFatal
              THEN /\ pc' = "Failed"
                   /\ result' = Some(Failure("failed to cache credentials"))
              ELSE pc' = "RoleCached" /\ result' = None
  /\ UNCHANGED <<now, interval, expiresAt, tokenResp, roleResp>>
  /\ UNCHANGED <<resolveVars, rtVars, statusVars, configVars, cacheVars, storeVars, syncVars, accountsVars, withSSOVars>>

\* Lines 896-909.
CreateConfig ==
  /\ pc = "RoleCached"
  /\ \E loadOK \in BOOLEAN :
       LET err == CreateConfigWithCredentials(roleResp[1], loadOK)
       IN  /\ calls' = Logged("CreateConfigWithCredentials",
                              IF err = "nil" THEN "ok"
                              ELSE IF err = "panic" THEN "panic" ELSE "err")
           /\ IF err = "panic"
              THEN pc' = "Crashed" /\ result' = None
              ELSE IF err # "nil"
              THEN pc' = "Failed" /\ result' = Some(Failure(err))
              ELSE /\ pc' = "Authorized"
                   /\ result' = Some([Success |-> TRUE, Error |-> "nil",
                                      Config |-> TRUE])
  /\ UNCHANGED <<now, interval, expiresAt, tokenResp, roleResp>>
  /\ UNCHANGED <<resolveVars, rtVars, statusVars, configVars, cacheVars, storeVars, syncVars, accountsVars, withSSOVars>>

InitLogin ==
  /\ pc = "Idle"
  /\ now = 0
  /\ interval = 0
  /\ expiresAt = 0
  /\ calls = <<>>
  /\ tokenResp = None
  /\ roleResp = None
  /\ result = None

(***************************************************************************)
(* SSOClient.CheckCredentialStatus                                         *)
(*                                                                         *)
(* An error text is a sequence of fragments; the substrings the code looks *)
(* for are sequences of one or two fragments.                              *)
(***************************************************************************)
ErrFragments ==
  {"Token", "Expired", "expired", "refresh", "InvalidGrantException",
   "NoCredentialProviders", "no valid credential", "AccessDenied"}
ErrTexts == SeqsUpTo(ErrFragments, MaxErrLen)

\* containsHelper, lines 1082-1089.
containsHelper(s, substr) ==
  \E i \in 0..(Len(s) - Len(substr)) : SubSeq(s, i + 1, i + Len(substr)) = substr

\* contains, lines 1078-1080.
contains(s, substr) == Len(s) >= Len(substr) /\ containsHelper(s, substr)

\* Lines 780-787: the status for a failed config.LoadDefaultConfig.
ClassifyConfigError(errStr) ==
  IF \/ contains(errStr, <<"expired">>)
     \/ contains(errStr, <<"Expired", "Token">>)
     \/ contains(errStr, <<"refresh">>)
  THEN "Expired"
  ELSE IF \/ contains(errStr, <<"NoCredentialProviders">>)
          \/ contains(errStr, <<"no valid credential">>)
  THEN "NotFound"
  ELSE "NotFound"

\* A probe that reports the Error status for a failure it does not recognise.
ClassifyProbeUnknownError(errStr) ==
  IF \/ contains(errStr, <<"Expired", "Token">>)
     \/ contains(errStr, <<"Token", "Expired">>)
     \/ contains(errStr, <<"InvalidGrantException">>)
     \/ contains(errStr, <<"refresh">>)
  THEN "Expired"
  ELSE IF \/ contains(errStr, <<"NoCredentialProviders">>)
          \/ contains(errStr, <<"no valid credential">>)
  THEN "NotFound"
  ELSE "Error"

\* A probe whose unrecognised failures count as missing credentials.
ClassifyProbeUnknownNotFound(errStr) ==
  IF \/ contains(errStr, <<"Expired", "Token">>)
     \/ contains(errStr, <<"Token", "Expired">>)
     \/ contains(errStr, <<"InvalidGrantException">>)
     \/ contains(errStr, <<"refresh">>)
  THEN "Expired"
  ELSE "NotFound"

\* A probe whose unrecognised failures count as valid credentials.
ClassifyProbeLenient(errStr) ==
  IF \/ contains(errStr, <<"Expired", "Token">>)
     \/ contains(errStr, <<"Token", "Expired">>)
     \/ contains(errStr, <<"InvalidGrantException">>)
     \/ contains(errStr, <<"refresh">>)
  THEN "Expired"
  ELSE IF \/ contains(errStr, <<"NoCredentialProviders">>)
          \/ contains(errStr, <<"no valid credential">>)
  THEN "NotFound"
  ELSE "Valid"

\* Lines 794-802: the status for a failed GetCallerIdentity.
ClassifyProbeError(errStr) ==
  IF \/ contains(errStr, <<"Expired", "Token">>)
     \/ contains(errStr, <<"Token", "Expired">>)
     \/ contains(errStr, <<"InvalidGrantException">>)
     \/ contains(errStr, <<"refresh">>)
  THEN "Expired"
  ELSE IF \/ contains(errStr, <<"NoCredentialProviders">>)
          \/ contains(errStr, <<"no valid credential">>)
  THEN "NotFound"
  ELSE "Expired"

\* Lines 772-806. The probe is made only with a loaded configuration.
CheckCredentialStatus ==
  /\ status = None
  /\ \E c \in {None} \cup {Some(t) : t \in ErrTexts} :
       /\ cfgErr' = c
       /\ IF c # None
          THEN /\ probeErr' = None
               /\ status' = Some(ClassifyConfigError(c[1]))
          ELSE \E q \in {None} \cup {Some(t) : t \in ErrTexts} :
                 /\ probeErr' = q
                 /\ status' = Some(IF q # None THEN ClassifyProbeError(q[1])
                                   ELSE "Valid")
  /\ UNCHANGED <<resolveVars, rtVars, loginVars, configVars, cacheVars, storeVars, syncVars, accountsVars, withSSOVars>>

InitStatus ==
  /\ cfgErr = None
  /\ probeErr = None
  /\ status = None

(***************************************************************************)
(* NewSSOClient and SSOClient.LoadSSOConfig                                *)
(*                                                                         *)
(* The text of ~/.aws/config is a sequence of tokens: words, " ", "=",     *)
(* "[", "]" and "\n". A string of the client is a sequence of tokens too,  *)
(* the empty string being <<>>.                                            *)
(***************************************************************************)
\* A key line of the file: the key and value it was written for, and its text.
KeyLine(key, value, line) == [key |-> key, value |-> value, line |-> line]

\* The key lines a profile section is made of, in file order; the third has
\* an empty value.
ProfileKeyLines ==
  << KeyLine("sso_session", <<"s">>, <<"sso_session", " ", "=", " ", "s">>),
     KeyLine("sso_start_url", <<"https://x/start">>,
             <<"sso_start_url", " ", "=", " ", "https://x/start">>),
     KeyLine("sso_start_url", <<>>, <<"sso_start_url", " ", "=">>),
     KeyLine("sso_account_id", <<"123">>, <<"sso_account_id", "=", "123">>),
     KeyLine("sso_role_name", <<"R">>,
             <<" ", "sso_role_name", " ", "=", " ", "R", " ">>),
     KeyLine("region", <<"eu-west-1">>, <<"region", "=", "eu-west-1">>),
     KeyLine("sso_region", <<"ap-south-1">>,
             <<"sso_region", " ", "=", " ", "ap-south-1">>) >>

\* The key lines of the [sso-session s] section, last to first.
SessionKeyLines ==
  << KeyLine("sso_region", <<"ca-central-1">>,
             <<"sso_region", " ", "=", " ", "ca-central-1">>),
     KeyLine("sso_start_url", <<"https://y/start">>,
             <<"sso_start_url", " ", "=", " ", "https://y/start">>) >>

\* Another profile's section.
OtherSection ==
  << <<"[", "profile", " ", "other", "]">>,
     <<"sso_start_url", " ", "=", " ", "https://z/start">>,
     <<"sso_account_id", " ", "=", " ", "999">>,
     <<"sso_role_name", " ", "=", " ", "Q">>,
     <<"region", " ", "=", " ", "sa-east-1">> >>

ProfileHeaders ==
  {<<"[", "default", "]">>, <<"[", "profile", " ", "demo", "]">>,
   <<"[", "profile", " ", "default", "]">>}
SessionHeader == <<"[", "sso-session", " ", "s", "]">>

\* The lines of `all` whose index is in the set picked, first to last, or
\* last to first when reversed.
RECURSIVE PickLines(_, _, _)
PickLines(all, picked, reversed) ==
  IF picked = {} THEN <<>>
  ELSE LET i == IF reversed
                 THEN CHOOSE x \in picked : \A y \in picked : y <= x
                 ELSE CHOOSE x \in picked : \A y \in picked : x <= y
       IN  <<all[i]>> \o PickLines(all, picked \ {i}, reversed)

\* The config files looked at: the profile section with at most MaxKeys of
\* its key lines, a session section (with or without a start URL) before or
\* after it or none, and possibly another profile's section.
ConfigFiles ==
  { [header |-> h,
     keys |-> PickLines(ProfileKeyLines, ks, rev),
     session |-> ss,
     other |-> o] :
      h \in ProfileHeaders,
      ks \in {x \in SUBSET (1..Len(ProfileKeyLines)) : Cardinality(x) <= MaxKeys},
      rev \in BOOLEAN,
      ss \in {None} \cup
             { Some([first |-> f, keys |-> PickLines(SessionKeyLines, 1..k, TRUE)]) :
                 f \in BOOLEAN, k \in 1..Len(SessionKeyLines) },
      o \in BOOLEAN }

\* The text of each of the key lines ks.
TextOf(ks) == [i \in 1..Len(ks) |-> ks[i].line]

\* The lines of a config file, a blank line after each section, and its
\* text.
FileLines(f) ==
  LET sess == IF f.session = None THEN <<>>
              ELSE <<SessionHeader>> \o TextOf(f.session[1].keys) \o << <<>> >>
      prof == <<f.header>> \o TextOf(f.keys) \o << <<>> >>
      oth  == IF f.other THEN OtherSection ELSE <<>>
  IN  IF f.session # None /\ f.session[1].first
      THEN sess \o prof \o oth
      ELSE prof \o sess \o oth

RECURSIVE JoinLines(_)
JoinLines(ls) ==
  IF ls = <<>> THEN <<>>
  ELSE IF Len(ls) = 1 THEN ls[1]
  ELSE ls[1] \o <<"\n">> \o JoinLines(Tail(ls))

FileText(f) == JoinLines(FileLines(f))

\* splitLines, lines 1040-1053.
RECURSIVE splitLinesFrom(_, _, _, _)
splitLinesFrom(s, start, i, lines) ==
  IF i >= Len(s)
  THEN IF start < Len(s) THEN Append(lines, Slice(s, start, Len(s))) ELSE lines
  ELSE IF s[i + 1] = "\n"
  THEN splitLinesFrom(s, i + 1, i + 1, Append(lines, Slice(s, start, i)))
  ELSE splitLinesFrom(s, start, i + 1, lines)

splitLines(s) == splitLinesFrom(s, 0, 0, <<>>)

\* trim, lines 1066-1076.
RECURSIVE trimStart(_, _, _)
trimStart(s, start, end) ==
  IF start < end /\ s[start + 1] \in {" ", "\t"}
  THEN trimStart(s, start + 1, end) ELSE start

RECURSIVE trimEnd(_, _, _)
trimEnd(s, start, end) ==
  IF end > start /\ s[end] \in {" ", "\t"}
  THEN trimEnd(s, start, end - 1) ELSE end

trim(s) ==
  LET start == trimStart(s, 0, Len(s))
  IN  Slice(s, start, trimEnd(s, start, Len(s)))

\* parseConfigLine, lines 1055-1064: nil, or key and value.
parseConfigLine(line) ==
  LET i == IndexFirst(line, "=")
  IN  IF i = -1 THEN None
      ELSE Some(<<trim(Slice(line, 0, i)), trim(Slice(line, i + 1, Len(line)))>>)

\* Index of the first line equal to the section header, or -1 (lines
\* 681-687 and 730-736).
SectionStart(lines, section) == IndexFirst(lines, section)

\* fmt.Sprintf("[profile %s]", c.profile), "[default]" for the default
\* profile (lines 675-678).
ProfileSectionOf(profile) ==
  IF profile = <<"default">> THEN <<"[", "default", "]">>
  ELSE <<"[", "profile", " ">> \o profile \o <<"]">>

\* The switch of lines 706-723 on a key of the profile section; st holds the
\* client c and ssoSessionName.
ApplyProfileKey(st, key, value) ==
  CASE key = <<"sso_session">> -> [st EXCEPT !.ssoSessionName = value]
    [] key = <<"sso_start_url">> -> [st EXCEPT !.c.startURL = value]
    [] key = <<"sso_region">> ->
         IF st.c.region = <<>> THEN [st EXCEPT !.c.region = value] ELSE st
    [] key = <<"sso_account_id">> -> [st EXCEPT !.c.accountID = value]
    [] key = <<"sso_role_name">> -> [st EXCEPT !.c.roleName = value]
    [] key = <<"region">> ->
         IF st.c.region = <<>> THEN [st EXCEPT !.c.region = value] ELSE st
    [] OTHER -> st

\* A session section whose start URL replaces the profile's.
ApplySessionKeyAlways(st, key, value) ==
  CASE key = <<"sso_start_url">> -> [st EXCEPT !.c.startURL = value]
    [] key = <<"sso_region">> ->
         IF st.c.region = <<>> THEN [st EXCEPT !.c.region = value] ELSE st
    [] OTHER -> st

\* The switch of lines 749-758 on a key of the sso-session section.
ApplySessionKey(st, key, value) ==
  CASE key = <<"sso_start_url">> ->
         IF st.c.startURL = <<>> THEN [st EXCEPT !.c.startURL = value] ELSE st
    [] key = <<"sso_region">> ->
         IF st.c.region = <<>> THEN [st EXCEPT !.c.region = value] ELSE st
    [] OTHER -> st

\* The loops of lines 696-725 (inProfile) and 739-760: from line i to the
\* next section header or the end of the file.
RECURSIVE ReadSection(_, _, _, _)
ReadSection(lines, i, st, inProfile) ==
  IF i >= Len(lines) THEN st
  ELSE LET line == lines[i + 1]
       IN  IF line = <<>> THEN ReadSection(lines, i + 1, st, inProfile)
           ELSE IF line[1] = "[" THEN st
           ELSE LET kv == parseConfigLine(line)
                    st2 == IF kv = None THEN st
                           ELSE IF inProfile
                           THEN ApplyProfileKey(st, kv[1][1], kv[1][2])
                           ELSE ApplySessionKey(st, kv[1][1], kv[1][2])
                IN  ReadSection(lines, i + 1, st2, inProfile)

\* A completeness check that asks for the start URL only.
IncompleteStartURLOnly(c) == c.startURL = <<>>

\* Line 764.
Incomplete(c) == c.startURL = <<>> \/ c.accountID = <<>> \/ c.roleName = <<>>

\* LoadSSOConfig, lines 658-770, on the client c: the client afterwards and
\* the error returned. fs is what the file system answers; text is the
\* content of the config file.
LoadSSOConfigOn(c, fs, text) ==
  IF fs = "homeDirErr" THEN [c |-> c, err |-> "failed to get home directory"]
  ELSE IF fs = "notExist" THEN [c |-> c, err |-> "AWS config file not found"]
  ELSE IF fs = "readErr" THEN [c |-> c, err |-> "failed to read AWS config"]
  ELSE
    LET lines == splitLines(text)
        profileStart == SectionStart(lines, ProfileSectionOf(c.profile))
    IN  IF profileStart = -1 THEN [c |-> c, err |-> "profile not found"]
        ELSE
          LET st1 == ReadSection(lines, profileStart + 1,
                                 [c |-> c, ssoSessionName |-> <<>>], TRUE)
              sessionStart ==
                IF st1.ssoSessionName = <<>> THEN -1
                ELSE SectionStart(lines, <<"[", "sso-session", " ">>
                                           \o st1.ssoSessionName \o <<"]">>)
              st2 == IF sessionStart = -1 THEN st1
                     ELSE ReadSection(lines, sessionStart + 1, st1, FALSE)
          IN  [c |-> st2.c,
               err |-> IF Incomplete(st2.c) THEN "incomplete SSO configuration"
                       ELSE "nil"]

\* &SSOClient{profile: ..., region: ...}
NewClient(profile, region) ==
  [profile |-> profile, region |-> region, startURL |-> <<>>,
   accountID |-> <<>>, roleName |-> <<>>]

\* Lines 618-630: the argument, else the environment variable, else the
\* built-in default.
OrDefault(arg, env, default) ==
  IF arg # <<>> THEN arg ELSE IF env # <<>> THEN env ELSE default

FsReads == {"homeDirErr", "notExist", "readErr"}

\* What a call makes of the file system: a failure, or a config file.
ConfigInputs ==
  {[fs |-> x, file |-> None] : x \in FsReads}
    \cup {[fs |-> "ok", file |-> Some(f)] : f \in ConfigFiles}

\* NewSSOClient, lines 617-656. An environment variable is looked at only
\* when the argument is empty.
NewSSOClient ==
  /\ ssoRet = None
  /\ \E profile \in {<<>>, <<"demo">>}, region \in {<<>>, <<"us-west-2">>} :
     \E envProfile \in {<<>>} \cup (IF profile = <<>> THEN {<<"demo">>} ELSE {}),
        envRegion \in {<<>>} \cup (IF region = <<>> THEN {<<"eu-west-1">>} ELSE {}),
        in \in ConfigInputs :
       \E r \in {LoadSSOConfigOn(
                    NewClient(OrDefault(profile, envProfile, <<"default">>),
                              OrDefault(region, envRegion, <<"us-east-1">>)),
                    in.fs,
                    IF in.file = None THEN <<>> ELSE FileText(in.file[1]))} :
           /\ ssoCall' = Some([via |-> "NewSSOClient", profile |-> profile,
                               region |-> region, AWS_PROFILE |-> envProfile,
                               AWS_REGION |-> envRegion])
           /\ configFile' = in.file
           /\ client' = Some(r.c)
           /\ ssoRet' = Some(IF r.err # "nil"
                             THEN [client |-> FALSE, err |-> r.err]
                             ELSE [client |-> TRUE, err |-> "nil"])
  /\ UNCHANGED <<resolveVars, rtVars, loginVars, statusVars, cacheVars, storeVars, syncVars, accountsVars, withSSOVars>>

\* LoadSSOConfig called on a client built by hand, as the tests do (lines
\* 435-440).
LoadSSOConfig ==
  /\ ssoRet = None
  /\ \E profile \in {<<"default">>, <<"demo">>},
        region \in {<<>>, <<"us-west-2">>},
        in \in ConfigInputs :
       \E r \in {LoadSSOConfigOn(NewClient(profile, region), in.fs,
                    IF in.file = None THEN <<>> ELSE FileText(in.file[1]))} :
           /\ ssoCall' = Some([via |-> "LoadSSOConfig", profile |-> profile,
                               region |-> region, AWS_PROFILE |-> <<>>,
                               AWS_REGION |-> <<>>])
           /\ configFile' = in.file
           /\ client' = Some(r.c)
           /\ ssoRet' = Some([client |-> TRUE, err |-> r.err])
  /\ UNCHANGED <<resolveVars, rtVars, loginVars, statusVars, cacheVars, storeVars, syncVars, accountsVars, withSSOVars>>

InitConfig ==
  /\ ssoCall = None
  /\ configFile = None
  /\ client = None
  /\ ssoRet = None

(***************************************************************************)
(* SSOClient.storeSSOToken and SSOClient.storeCachedCredentials            *)
(*                                                                         *)
(* The client (profile, region, start URL) is the same in every call, so   *)
(* each function writes one file: "sso" is ~/.aws/sso/cache/<sha1>.json    *)
(* and "cli" is ~/.aws/cli/cache/sso-<profile>.json. The clock counts half *)
(* seconds.                                                                *)
(***************************************************************************)
CacheNames == {"sso", "cli"}

\* A cache file before the first call: absent, or left by something else
\* with its own permissions.
OldFiles ==
  {None} \cup {Some([data |-> "old", mode |-> md]) : md \in {"0644", "0400"}}

\* What the file system may refuse.
StoreFailures == {"none", "homeDirErr", "mkdirErr", "writeErr"}

\* os.WriteFile(name, data, perm): create the file with perm when it does
\* not exist; otherwise truncate and write it without changing its
\* permissions, which must allow writing.
WriteFile(file, data, perm) ==
  IF file = None THEN [err |-> "nil", file |-> Some([data |-> data, mode |-> perm])]
  ELSE IF file[1].mode = "0400" THEN [err |-> "permission denied", file |-> file]
  ELSE [err |-> "nil", file |-> Some([data |-> data, mode |-> file[1].mode])]

\* A time format that keeps the half seconds.
FormatNano(t) == t

\* t.Format(time.RFC3339): the time to the second.
FormatRFC3339(t) == t \div 2

\* time.Duration(n) * time.Second, in half seconds.
Seconds(n) == 2 * n

\* storeSSOToken, lines 953-999: the error and the file left behind. nil
\* pointers are None.
storeSSOTokenFile(file, accessToken, expiresIn, t, fail) ==
  IF accessToken = None \/ expiresIn = None
  THEN [err |-> "invalid token data", file |-> file]
  ELSE IF fail = "homeDirErr"
  THEN [err |-> "failed to get home directory", file |-> file]
  ELSE IF fail = "mkdirErr"
  THEN [err |-> "failed to create SSO cache directory", file |-> file]
  ELSE IF fail = "writeErr"
  THEN [err |-> "failed to write SSO token cache", file |-> file]
  ELSE LET tokenCache == [startUrl |-> "c.startURL", region |-> "c.region",
                          accessToken |-> accessToken[1],
                          expiresAt |-> FormatRFC3339(t + Seconds(expiresIn[1]))]
           w == WriteFile(file, tokenCache, "0600")
       IN  [err |-> IF w.err = "nil" THEN "nil"
                    ELSE "failed to write SSO token cache",
            file |-> w.file]

\* The role credentials handed to storeCachedCredentials: a nil pointer
\* field is None.
CachedCreds ==
  { [AccessKeyId |-> k, SecretAccessKey |-> Some("secret"),
     SessionToken |-> Some("session"), Expiration |-> x] :
      k \in {None, Some("AKIA1"), Some("AKIA2")}, x \in {7} }

\* storeCachedCredentials, lines 1001-1037: the error ("panic" for the nil
\* dereference of lines 1015-1017) and the file left behind.
storeCachedCredentialsFile(file, creds, fail) ==
  IF fail = "homeDirErr"
  THEN [err |-> "failed to get home directory", file |-> file]
  ELSE IF fail = "mkdirErr"
  THEN [err |-> "failed to create cache directory", file |-> file]
  ELSE IF creds.AccessKeyId = None \/ creds.SecretAccessKey = None
          \/ creds.SessionToken = None
  THEN [err |-> "panic", file |-> file]
  ELSE IF fail = "writeErr"
  THEN [err |-> "failed to write cache file", file |-> file]
  ELSE LET cacheEntry ==
             [Credentials |-> [AccessKeyId |-> creds.AccessKeyId[1],
                               SecretAccessKey |-> creds.SecretAccessKey[1],
                               SessionToken |-> creds.SessionToken[1]],
              Expiration |-> FormatRFC3339(Seconds(creds.Expiration)),
              ProviderType |-> "sso"]
           w == WriteFile(file, cacheEntry, "0600")
       IN  [err |-> IF w.err = "nil" THEN "nil" ELSE "failed to write cache file",
            file |-> w.file]

\* The calls kept for comparison.
LatestTwo(s) == IF Len(s) > 2 THEN Tail(s) ELSE s

\* A call of storeSSOToken (lines 953-999).
StoreSSOTokenCall ==
  /\ nStores < MaxStores
  /\ nStores' = nStores + 1
  /\ \E accessToken \in {None, Some("t1"), Some("t2")},
        expiresIn \in {None, Some(1)},
        fail \in StoreFailures :
       \E r \in {storeSSOTokenFile(cacheFile["sso"], accessToken, expiresIn,
                                   clock, fail)} :
         /\ cacheFile' = [cacheFile EXCEPT !["sso"] = r.file]
         /\ stores' = LatestTwo(Append(stores,
              [op |-> "storeSSOToken", in |-> <<accessToken, expiresIn>>,
               before |-> cacheFile["sso"], err |-> r.err, at |-> clock,
               file |-> r.file]))
  /\ UNCHANGED clock
  /\ UNCHANGED <<resolveVars, rtVars, loginVars, statusVars, configVars, storeVars, syncVars, accountsVars, withSSOVars>>

\* A call of storeCachedCredentials (lines 1001-1037).
StoreCachedCredentialsCall ==
  /\ nStores < MaxStores
  /\ nStores' = nStores + 1
  /\ \E creds \in CachedCreds, fail \in StoreFailures :
       \E r \in {storeCachedCredentialsFile(cacheFile["cli"], creds, fail)} :
         /\ cacheFile' = [cacheFile EXCEPT !["cli"] = r.file]
         /\ stores' = LatestTwo(Append(stores,
              [op |-> "storeCachedCredentials", in |-> <<creds>>,
               before |-> cacheFile["cli"], err |-> r.err, at |-> clock,
               file |-> r.file]))
  /\ UNCHANGED clock
  /\ UNCHANGED <<resolveVars, rtVars, loginVars, statusVars, configVars, storeVars, syncVars, accountsVars, withSSOVars>>

\* Half a second passes between calls.
Tick ==
  /\ clock < MaxClock
  /\ clock' = clock + 1
  /\ UNCHANGED <<cacheFile, stores, nStores>>
  /\ UNCHANGED <<resolveVars, rtVars, loginVars, statusVars, configVars, storeVars, syncVars, accountsVars, withSSOVars>>

InitCacheIdle ==
  /\ cacheFile = [n \in CacheNames |-> None]
  /\ clock = 0
  /\ stores = <<>>
  /\ nStores = 0

InitCache ==
  /\ cacheFile \in [CacheNames -> OldFiles]
  /\ clock = 0
  /\ stores = <<>>
  /\ nStores = 0

(***************************************************************************)
(* The store command: storeCmd.RunE and SecretsManagerClient.StoreAccessToken *)
(***************************************************************************)
\* The claim responses the store command is run against.
ClaimBodies ==
  {p \o r : p \in {<<>>, prefix, <<"h", "t", "t", "p", ":", "/", "/">>},
            r \in SeqsUpTo(BodyChars, MaxClaimRest)}

\* json.Marshal(token): the three fields under their JSON names (strings of
\* the model's alphabet need no escaping).
MarshalToken(token) ==
  [username |-> token.Username, password |-> token.Password, url |-> token.Url]

\* A StoreAccessToken that reports success when both calls failed.
StoreAccessTokenQuiet(sec, name, token, createOK, updateOK) ==
  LET json == MarshalToken(token)
      created == sec = None /\ createOK
      updated == sec # None /\ updateOK
      create == [op |-> "CreateSecret", name |-> name, value |-> json, ok |-> created]
      update == [op |-> "UpdateSecret", name |-> name, value |-> json, ok |-> updated]
  IN  IF created
      THEN [err |-> "nil", secret |-> Some(json), calls |-> <<create>>]
      ELSE IF updated
      THEN [err |-> "nil", secret |-> Some(json), calls |-> <<create, update>>]
      ELSE [err |-> "nil", secret |-> sec, calls |-> <<create, update>>]

\* StoreAccessToken, api/secrets_manager.go lines 41-67: CreateSecret, and
\* UpdateSecret when that failed. CreateSecret fails when the secret exists,
\* UpdateSecret when it does not; createOK and updateOK are what the service
\* does otherwise.
StoreAccessToken(sec, name, token, createOK, updateOK) ==
  LET json == MarshalToken(token)
      created == sec = None /\ createOK
      updated == sec # None /\ updateOK
      create == [op |-> "CreateSecret", name |-> name, value |-> json, ok |-> created]
      update == [op |-> "UpdateSecret", name |-> name, value |-> json, ok |-> updated]
  IN  IF created
      THEN [err |-> "nil", secret |-> Some(json), calls |-> <<create>>]
      ELSE IF updated
      THEN [err |-> "nil", secret |-> Some(json), calls |-> <<create, update>>]
      ELSE [err |-> "failed to create or update secret", secret |-> sec,
            calls |-> <<create, update>>]

\* storeCmd.RunE, cmd/store.go lines 25-60.
StoreRunE ==
  /\ cmdErr = None
  /\ IF setupToken = <<>>
     THEN /\ cmdErr' = Some("setup token is required for storing")
          /\ UNCHANGED <<secretName, secret, smCalls, claimResp, posts, resolved>>
     ELSE
       \E postOK \in BOOLEAN, readOK \in BOOLEAN :
       \E body \in IF /\ DecodeString(setupToken).err = "nil"
                       /\ Len(DecodeString(setupToken).bytes) > 0
                       /\ postOK /\ readOK
                   THEN ClaimBodies ELSE {<<>>} :
       \E o \in {ResolveOutcome(DecodeString(setupToken), postOK, readOK, body)} :
         /\ secretName' = IF secretName = "" THEN "chi-chi-moni-access-token"
                          ELSE secretName
         /\ resolved' = Some(o.ret)
         /\ posts' = posts \o o.posts
         /\ claimResp' = o.body
         /\ IF o.ret.err # "nil"
            THEN /\ cmdErr' = Some("failed to resolve setup token")
                 /\ UNCHANGED <<secret, smCalls>>
            ELSE
              \E cfgOK \in BOOLEAN :
                IF ~cfgOK
                THEN /\ cmdErr' = Some("failed to create Secrets Manager client")
                     /\ UNCHANGED <<secret, smCalls>>
                ELSE
                  \E createOK \in BOOLEAN, updateOK \in BOOLEAN :
                  \E st \in {StoreAccessToken(secret, secretName', o.ret.token,
                                              createOK, updateOK)} :
                    /\ secret' = st.secret
                    /\ smCalls' = smCalls \o st.calls
                    /\ cmdErr' = Some(IF st.err = "nil" THEN "nil"
                                      ELSE "failed to store access token")
  /\ UNCHANGED setupToken
  /\ UNCHANGED <<rtVars, loginVars, statusVars, configVars, cacheVars, syncVars, accountsVars, withSSOVars>>

\* The secret before the command runs: absent, or stored by an earlier run.
OldSecrets ==
  {None, Some(MarshalToken([Username |-> <<"0">>, Password |-> <<"0">>,
                            Url |-> <<"0">>]))}

IdleStore ==
  /\ secretName = ""
  /\ secret = None
  /\ smCalls = <<>>
  /\ cmdErr = None

InitStore ==
  /\ secretName \in {"", "my-simplefin-token"}
  /\ secret \in OldSecrets
  /\ smCalls = <<>>
  /\ cmdErr = None

(***************************************************************************)
(* The sync run: main                                                      *)
(*                                                                         *)
(* log.Fatal prints the error and exits with status 1. getAccessToken is   *)
(* one step here, with its outcome; its parts have their own actions above.*)
(* The database file outlives the process: StartRun starts main again on   *)
(* the tables the earlier runs left.                                       *)
(***************************************************************************)
AccountIDs == {"acc_001", "acc_002"}

\* The accounts of a response: ID and balance.
Accounts == {[ID |-> id, Balance |-> "1000.00"] : id \in AccountIDs}
AccountLists == SeqsUpTo(Accounts, MaxAccounts)

SyncLogged(op, acct, ok) == Append(syncLog, [op |-> op, acct |-> acct, ok |-> ok])

\* log.Fatal(err)
Fatal ==
  /\ syncPc' = "exited"
  /\ exitCode' = Some(1)

\* Lines 41-44: getAccessToken.
GetAccessToken ==
  /\ syncPc = "getAccessToken"
  /\ \E ok \in BOOLEAN :
       /\ syncLog' = SyncLogged("getAccessToken", 0, ok)
       /\ IF ok THEN syncPc' = "NewSimpleFinClient" /\ exitCode' = exitCode
          ELSE Fatal
  /\ UNCHANGED <<accountsResp, acctIdx, exists, jobUuid, nUuids, runs, bankAccounts, balances>>
  /\ UNCHANGED <<resolveVars, rtVars, loginVars, statusVars, configVars, cacheVars, storeVars, accountsVars, withSSOVars>>

\* Lines 45-48: NewSimpleFinClient returns a nil error always (part_004,
\* lines 27-38).
NewSimpleFinClient ==
  /\ syncPc = "NewSimpleFinClient"
  /\ syncLog' = SyncLogged("NewSimpleFinClient", 0, TRUE)
  /\ syncPc' = "getDbFilePath"
  /\ UNCHANGED <<accountsResp, acctIdx, exists, jobUuid, nUuids, runs, bankAccounts, balances, exitCode>>
  /\ UNCHANGED <<resolveVars, rtVars, loginVars, statusVars, configVars, cacheVars, storeVars, accountsVars, withSSOVars>>

\* Lines 50-53: getDbFilePath.
GetDbFilePath ==
  /\ syncPc = "getDbFilePath"
  /\ \E ok \in BOOLEAN :
       /\ syncLog' = SyncLogged("getDbFilePath", 0, ok)
       /\ IF ok THEN syncPc' = "NewDatabaseClient" /\ exitCode' = exitCode
          ELSE Fatal
  /\ UNCHANGED <<accountsResp, acctIdx, exists, jobUuid, nUuids, runs, bankAccounts, balances>>
  /\ UNCHANGED <<resolveVars, rtVars, loginVars, statusVars, configVars, cacheVars, storeVars, accountsVars, withSSOVars>>

\* Lines 55-60: db.NewDatabaseClient, then jobUuid := uuid.New(), a value
\* no earlier call returned.
NewDatabaseClient ==
  /\ syncPc = "NewDatabaseClient"
  /\ \E ok \in BOOLEAN :
       /\ syncLog' = SyncLogged("NewDatabaseClient", 0, ok)
       /\ IF ok
          THEN /\ syncPc' = "GetAccounts"
               /\ exitCode' = exitCode
               /\ nUuids' = nUuids + 1
               /\ jobUuid' = Some(nUuids + 1)
          ELSE /\ Fatal
               /\ UNCHANGED <<jobUuid, nUuids>>
  /\ UNCHANGED <<accountsResp, acctIdx, exists, runs, bankAccounts, balances>>
  /\ UNCHANGED <<resolveVars, rtVars, loginVars, statusVars, configVars, cacheVars, storeVars, accountsVars, withSSOVars>>

\* A loop that leaves out the first account of several.
LoopFromSkipping(i, accts) ==
  IF i <= Len(accts)
  THEN /\ syncPc' = "DoesBankAccountExist"
       /\ acctIdx' = IF i = 1 /\ Len(accts) > 1 THEN 2 ELSE i
       /\ exitCode' = exitCode
  ELSE /\ syncPc' = "exited"
       /\ acctIdx' = acctIdx
       /\ exitCode' = Some(0)

\* The loop head of line 67: the next account, or the end of main.
LoopFrom(i, accts) ==
  IF i <= Len(accts)
  THEN /\ syncPc' = "DoesBankAccountExist"
       /\ acctIdx' = i
       /\ exitCode' = exitCode
  ELSE /\ syncPc' = "exited"
       /\ acctIdx' = acctIdx
       /\ exitCode' = Some(0)

\* Lines 62-67: finClient.GetAccounts.
GetAccounts ==
  /\ syncPc = "GetAccounts"
  /\ \/ /\ syncLog' = SyncLogged("GetAccounts", 0, FALSE)
        /\ Fatal
        /\ UNCHANGED <<accountsResp, acctIdx>>
     \/ \E accts \in AccountLists :
        /\ syncLog' = SyncLogged("GetAccounts", 0, TRUE)
        /\ accountsResp' = Some(accts)
        /\ LoopFrom(1, accts)
  /\ UNCHANGED <<exists, jobUuid, nUuids, runs, bankAccounts, balances>>
  /\ UNCHANGED <<resolveVars, rtVars, loginVars, statusVars, configVars, cacheVars, storeVars, accountsVars, withSSOVars>>

\* A lookup that answers true for every ID.
DoesBankAccountExistAlways ==
  /\ syncPc = "DoesBankAccountExist"
  /\ \E ok \in BOOLEAN :
       /\ syncLog' = SyncLogged("DoesBankAccountExist", acctIdx, ok)
       /\ IF ~ok THEN Fatal /\ exists' = FALSE
          ELSE /\ exists' = TRUE
               /\ syncPc' = "PutAccountBalance"
               /\ exitCode' = exitCode
  /\ UNCHANGED <<accountsResp, acctIdx, jobUuid, nUuids, runs, bankAccounts, balances>>
  /\ UNCHANGED <<resolveVars, rtVars, loginVars, statusVars, configVars, cacheVars, storeVars, accountsVars, withSSOVars>>

\* Lines 68-72: dbClient.DoesBankAccountExist (part_000, lines 927-935:
\* COUNT(*) > 0, and false with an error), then `if !exists`.
DoesBankAccountExist ==
  /\ syncPc = "DoesBankAccountExist"
  /\ \E ok \in BOOLEAN :
       /\ syncLog' = SyncLogged("DoesBankAccountExist", acctIdx, ok)
       /\ IF ~ok THEN Fatal /\ exists' = FALSE
          ELSE /\ exists' = (accountsResp[1][acctIdx].ID \in bankAccounts)
               /\ syncPc' = IF exists' THEN "PutAccountBalance" ELSE "PutBankAccount"
               /\ exitCode' = exitCode
  /\ UNCHANGED <<accountsResp, acctIdx, jobUuid, nUuids, runs, bankAccounts, balances>>
  /\ UNCHANGED <<resolveVars, rtVars, loginVars, statusVars, configVars, cacheVars, storeVars, accountsVars, withSSOVars>>

\* A run that prints a failed PutBankAccount and goes on.
PutBankAccountLenient ==
  /\ syncPc = "PutBankAccount"
  /\ \E ok \in BOOLEAN :
       /\ syncLog' = SyncLogged("PutBankAccount", acctIdx, ok)
       /\ syncPc' = "PutAccountBalance"
       /\ exitCode' = exitCode
       /\ bankAccounts' = IF ok THEN bankAccounts \cup {accountsResp[1][acctIdx].ID}
                          ELSE bankAccounts
  /\ UNCHANGED <<accountsResp, acctIdx, exists, jobUuid, nUuids, runs, balances>>
  /\ UNCHANGED <<resolveVars, rtVars, loginVars, statusVars, configVars, cacheVars, storeVars, accountsVars, withSSOVars>>

\* Lines 72-76: dbClient.PutBankAccount, when the account does not exist.
PutBankAccount ==
  /\ syncPc = "PutBankAccount"
  /\ \E ok \in BOOLEAN :
       /\ syncLog' = SyncLogged("PutBankAccount", acctIdx, ok)
       /\ IF ~ok THEN Fatal /\ bankAccounts' = bankAccounts
          ELSE /\ syncPc' = "PutAccountBalance"
               /\ exitCode' = exitCode
               /\ bankAccounts' = bankAccounts \cup {accountsResp[1][acctIdx].ID}
  /\ UNCHANGED <<accountsResp, acctIdx, exists, jobUuid, nUuids, runs, balances>>
  /\ UNCHANGED <<resolveVars, rtVars, loginVars, statusVars, configVars, cacheVars, storeVars, accountsVars, withSSOVars>>

\* Lines 78-81: dbClient.PutAccountBalance, then the next account.
PutAccountBalance ==
  /\ syncPc = "PutAccountBalance"
  /\ \E ok \in BOOLEAN :
       /\ syncLog' = SyncLogged("PutAccountBalance", acctIdx, ok)
       /\ IF ~ok THEN Fatal /\ UNCHANGED <<balances, acctIdx>>
          ELSE /\ balances' = Append(balances,
                    [BANK_ACCOUNT_ID |-> accountsResp[1][acctIdx].ID,
                     RUN_ID |-> jobUuid[1],
                     BALANCE |-> accountsResp[1][acctIdx].Balance])
               /\ LoopFrom(acctIdx + 1, accountsResp[1])
  /\ UNCHANGED <<accountsResp, exists, jobUuid, nUuids, runs, bankAccounts>>
  /\ UNCHANGED <<resolveVars, rtVars, loginVars, statusVars, configVars, cacheVars, storeVars, accountsVars, withSSOVars>>

\* The program is started again after it exited: a new process on the same
\* database file.
StartRun ==
  /\ syncPc = "exited"
  /\ runs < MaxRuns
  /\ runs' = runs + 1
  /\ syncPc' = "getAccessToken"
  /\ accountsResp' = None
  /\ acctIdx' = 0
  /\ exists' = FALSE
  /\ jobUuid' = None
  /\ syncLog' = <<>>
  /\ exitCode' = None
  /\ UNCHANGED <<nUuids, bankAccounts, balances>>
  /\ UNCHANGED <<resolveVars, rtVars, loginVars, statusVars, configVars, cacheVars, storeVars, accountsVars, withSSOVars>>

IdleSync ==
  /\ syncPc = "getAccessToken"
  /\ accountsResp = None
  /\ acctIdx = 0
  /\ exists = FALSE
  /\ jobUuid = None
  /\ nUuids = 0
  /\ runs = 1
  /\ bankAccounts = {}
  /\ balances = <<>>
  /\ syncLog = <<>>
  /\ exitCode = None

\* The database may hold accounts of earlier runs.
InitSync ==
  /\ syncPc = "getAccessToken"
  /\ accountsResp = None
  /\ acctIdx = 0
  /\ exists = FALSE
  /\ jobUuid = None
  /\ nUuids = 0
  /\ runs = 1
  /\ bankAccounts \in SUBSET AccountIDs
  /\ balances = <<>>
  /\ syncLog = <<>>
  /\ exitCode = None

(***************************************************************************)
(* SimpleFinClient.GetAccounts                                             *)
(*                                                                         *)
(* A response body is a sequence of fragments of JSON text. http.Client.Get*)
(* returns an error for a failed exchange only: a response with any status *)
(* code is returned with a nil error.                                      *)
(***************************************************************************)
JsonMembers == {"\"accounts\":[]", "\"errors\":[\"boom\"]"}
JsonFragments == {"{", "}", ",", "null", "[]", "Internal Server Error"} \cup JsonMembers

StatusCodes == {200, 401, 500}

\* The text between the braces: members separated by commas.
IsMemberList(b) ==
  \/ b = <<>>
  \/ /\ Len(b) % 2 = 1
     /\ \A k \in DOMAIN b :
          IF k % 2 = 1 THEN b[k] \in JsonMembers ELSE b[k] = ","

IsJsonObject(b) ==
  /\ Len(b) >= 2
  /\ b[1] = "{"
  /\ b[Len(b)] = "}"
  /\ IsMemberList(SubSeq(b, 2, Len(b) - 1))

\* json.Unmarshal(b, &response) for response a struct: a syntax error for
\* text that is not JSON, a type error for an array, nothing to do for
\* null, the fields of the members for an object.
UnmarshalResponse(b) ==
  IF IsJsonObject(b)
  THEN [err |-> "nil",
        Accounts |-> \E k \in DOMAIN b : b[k] = "\"accounts\":[]",
        Errors |-> \E k \in DOMAIN b : b[k] = "\"errors\":[\"boom\"]"]
  ELSE IF b = <<"null">>
  THEN [err |-> "nil", Accounts |-> FALSE, Errors |-> FALSE]
  ELSE IF b = <<"[]">>
  THEN [err |-> "json: cannot unmarshal array", Accounts |-> FALSE, Errors |-> FALSE]
  ELSE [err |-> "invalid character", Accounts |-> FALSE, Errors |-> FALSE]

\* Lines 71-84 of GetAccounts, on what the exchange produced.
GetAccountsOn(r) ==
  IF r.err # "nil"
  THEN [response |-> None, err |-> r.err]
  ELSE IF UnmarshalResponse(r.Body).err # "nil"
  THEN [response |-> None, err |-> UnmarshalResponse(r.Body).err]
  ELSE [response |-> Some([Accounts |-> UnmarshalResponse(r.Body).Accounts,
                           Errors |-> UnmarshalResponse(r.Body).Errors]),
        err |-> "nil"]

\* What c.client.Get and io.ReadAll can produce.
HttpOutcomes ==
  {[err |-> "dial error", StatusCode |-> 0, Body |-> <<>>],
   [err |-> "read error", StatusCode |-> 200, Body |-> <<>>]}
    \cup {[err |-> "nil", StatusCode |-> c, Body |-> b] :
            c \in StatusCodes, b \in SeqsUpTo(JsonFragments, MaxBodyLen)}

ClientGetAccounts ==
  /\ getRet = None
  /\ httpResp \in HttpOutcomes
  /\ getRet' = Some(GetAccountsOn(httpResp))
  /\ UNCHANGED httpResp
  /\ UNCHANGED <<resolveVars, rtVars, loginVars, statusVars, configVars, cacheVars, storeVars, syncVars, withSSOVars>>

IdleAccounts ==
  /\ httpResp = None
  /\ getRet = None

InitAccounts ==
  /\ httpResp \in HttpOutcomes
  /\ getRet = None

(***************************************************************************)
(* NewSecretsManagerClientWithSSO                                          *)
(*                                                                         *)
(* The function calls CheckCredentialStatus, then InitiateLoginFlow (the   *)
(* actions of the flow above) or CreateConfigWithSSO. CheckCredentialStatus*)
(* has no return statement with a non-nil error, so the branch of lines    *)
(* 151-153 is never taken.                                                 *)
(***************************************************************************)
\* Outcomes of config.LoadDefaultConfig and GetCallerIdentity, as
\* [cfgErr, probeErr]: one for each return statement of CheckCredentialStatus.
StatusOutcomes ==
  {[cfgErr |-> None, probeErr |-> None],
   [cfgErr |-> Some(<<"expired">>), probeErr |-> None],
   [cfgErr |-> Some(<<"NoCredentialProviders">>), probeErr |-> None],
   [cfgErr |-> Some(<<"AccessDenied">>), probeErr |-> None],
   [cfgErr |-> None, probeErr |-> Some(<<"Token", "Expired">>)],
   [cfgErr |-> None, probeErr |-> Some(<<"no valid credential">>)],
   [cfgErr |-> None, probeErr |-> Some(<<"AccessDenied">>)]}

\* Lines 149-153: the call of CheckCredentialStatus (lines 772-806).
CheckStatusForClient ==
  /\ status = None
  /\ \E o \in StatusOutcomes :
       /\ cfgErr' = o.cfgErr
       /\ probeErr' = o.probeErr
       /\ status' = Some(IF o.cfgErr # None THEN ClassifyConfigError(o.cfgErr[1])
                         ELSE IF o.probeErr # None
                         THEN ClassifyProbeError(o.probeErr[1])
                         ELSE "Valid")
  /\ UNCHANGED <<resolveVars, rtVars, loginVars, configVars, cacheVars, storeVars, syncVars, accountsVars, withSSOVars>>

\* A test that sends only expired credentials to the login flow.
LoginNeededIfExpired(st) == st = "Expired"

\* Line 156: status == CredentialStatusExpired || status == CredentialStatusNotFound.
LoginNeeded(st) == st = "Expired" \/ st = "NotFound"

\* Lines 156-158: the call of InitiateLoginFlow, whose first step is
\* RegisterClient.
InitiateLogin ==
  /\ status # None
  /\ LoginNeeded(status[1])
  /\ smRet = None
  /\ RegisterClient

\* Lines 159-170: the flow returned; the client is built from
\* authResult.Config when it succeeded.
ClientFromLogin ==
  /\ smRet = None
  /\ status # None
  /\ LoginNeeded(status[1])
  /\ result # None
  /\ smRet' = IF result[1].Success
              THEN [client |-> Some([config |-> "authResult.Config"]), err |-> "nil"]
              ELSE [client |-> None, err |-> "SSO authentication failed"]
  /\ UNCHANGED <<resolveVars, rtVars, loginVars, statusVars, configVars, cacheVars, storeVars, syncVars, accountsVars>>

\* Lines 173-183: CreateConfigWithSSO (lines 918-928) loads the configuration
\* of the profile; the client is built from it.
ClientFromProfile ==
  /\ smRet = None
  /\ status # None
  /\ ~LoginNeeded(status[1])
  /\ \E loadOK \in BOOLEAN :
       smRet' = IF loadOK
                THEN [client |-> Some([config |-> "CreateConfigWithSSO"]), err |-> "nil"]
                ELSE [client |-> None, err |-> "failed to create config with SSO"]
  /\ UNCHANGED <<resolveVars, rtVars, loginVars, statusVars, configVars, cacheVars, storeVars, syncVars, accountsVars>>

IdleWithSSO == smRet = None

(***************************************************************************)
(* Specifications                                                          *)
(***************************************************************************)
NextResolve == Resolve

InitSpecResolve == InitResolve /\ IdleRT /\ InitLogin /\ InitStatus /\ InitConfig /\ InitCacheIdle /\ IdleStore /\ IdleSync /\ IdleAccounts /\ IdleWithSSO

SpecResolve == InitSpecResolve /\ [][NextResolve]_vars

NextRT == RoundTrip

InitSpecRT == IdleResolve /\ InitRT /\ InitLogin /\ InitStatus /\ InitConfig /\ InitCacheIdle /\ IdleStore /\ IdleSync /\ IdleAccounts /\ IdleWithSSO

SpecRT == InitSpecRT /\ [][NextRT]_vars

NextLogin ==
  \/ RegisterClient
  \/ StartDeviceAuthorization
  \/ OpenBrowser
  \/ Poll
  \/ Expire
  \/ StoreSSOToken
  \/ GetRoleCredentials
  \/ StoreCachedCredentials
  \/ CreateConfig

InitSpecLogin == IdleResolve /\ IdleRT /\ InitLogin /\ InitStatus /\ InitConfig /\ InitCacheIdle /\ IdleStore /\ IdleSync /\ IdleAccounts /\ IdleWithSSO

SpecLogin == InitSpecLogin /\ [][NextLogin]_vars

\* InitiateLoginFlow is sequential code: while a step is possible, one is
\* taken.
SpecLoginFair == InitSpecLogin /\ [][NextLogin]_vars /\ WF_vars(NextLogin)

NextStatus == CheckCredentialStatus

InitSpecStatus == IdleResolve /\ IdleRT /\ InitLogin /\ InitStatus /\ InitConfig /\ InitCacheIdle /\ IdleStore /\ IdleSync /\ IdleAccounts /\ IdleWithSSO

SpecStatus == InitSpecStatus /\ [][NextStatus]_vars

NextConfig ==
  \/ NewSSOClient
  \/ LoadSSOConfig

InitSpecConfig == IdleResolve /\ IdleRT /\ InitLogin /\ InitStatus /\ InitConfig /\ InitCacheIdle /\ IdleStore /\ IdleSync /\ IdleAccounts /\ IdleWithSSO

SpecConfig == InitSpecConfig /\ [][NextConfig]_vars

NextCache ==
  \/ StoreSSOTokenCall
  \/ StoreCachedCredentialsCall
  \/ Tick

InitSpecCache == IdleResolve /\ IdleRT /\ InitLogin /\ InitStatus /\ InitConfig /\ InitCache /\ IdleStore /\ IdleSync /\ IdleAccounts /\ IdleWithSSO

SpecCache == InitSpecCache /\ [][NextCache]_vars

NextStore == StoreRunE

InitSpecStore == InitResolve /\ IdleRT /\ InitLogin /\ InitStatus /\ InitConfig /\ InitCacheIdle /\ InitStore /\ IdleSync /\ IdleAccounts /\ IdleWithSSO

SpecStore == InitSpecStore /\ [][NextStore]_vars

NextSync ==
  \/ GetAccessToken
  \/ NewSimpleFinClient
  \/ GetDbFilePath
  \/ NewDatabaseClient
  \/ GetAccounts
  \/ DoesBankAccountExist
  \/ PutBankAccount
  \/ PutAccountBalance

InitSpecSync == IdleResolve /\ IdleRT /\ InitLogin /\ InitStatus /\ InitConfig /\ InitCacheIdle /\ IdleStore /\ InitSync /\ IdleAccounts /\ IdleWithSSO

SpecSync == InitSpecSync /\ [][NextSync]_vars

NextSyncRuns ==
  \/ GetAccessToken
  \/ NewSimpleFinClient
  \/ GetDbFilePath
  \/ NewDatabaseClient
  \/ GetAccounts
  \/ DoesBankAccountExist
  \/ PutBankAccount
  \/ PutAccountBalance
  \/ StartRun

SpecSyncRuns == InitSpecSync /\ [][NextSyncRuns]_vars

NextAccounts ==
  \/ ClientGetAccounts

InitSpecAccounts == IdleResolve /\ IdleRT /\ InitLogin /\ InitStatus /\ InitConfig /\ InitCacheIdle /\ IdleStore /\ IdleSync /\ InitAccounts /\ IdleWithSSO

SpecAccounts == InitSpecAccounts /\ [][NextAccounts]_vars

NextWithSSO ==
  \/ CheckStatusForClient
  \/ InitiateLogin
  \/ StartDeviceAuthorization
  \/ OpenBrowser
  \/ Poll
  \/ Expire
  \/ StoreSSOToken
  \/ GetRoleCredentials
  \/ StoreCachedCredentials
  \/ CreateConfig
  \/ ClientFromLogin
  \/ ClientFromProfile

InitSpecWithSSO == IdleResolve /\ IdleRT /\ InitLogin /\ InitStatus /\ InitConfig /\ InitCacheIdle /\ IdleStore /\ IdleSync /\ IdleAccounts /\ IdleWithSSO

SpecWithSSO == InitSpecWithSSO /\ [][NextWithSSO]_vars

(***************************************************************************)
(* Properties of AccessTokenResolver.Resolve (SpecResolve)                 *)
(***************************************************************************)
HasPrefix(b) == Len(b) >= Len(prefix) /\ \A i \in 1..Len(prefix) : b[i] = prefix[i]

AfterPrefix(b) == SubSeq(b, Len(prefix) + 1, Len(b))

\* A malformed claim response: no leading "https://" (an empty body has
\* none), no '@' after the prefix, or no ':' before the first '@'.
Malformed(b) ==
  \/ ~HasPrefix(b)
  \/ ~Contains(AfterPrefix(b), "@")
  \/ \A i \in 1..Len(AfterPrefix(b)) :
       AfterPrefix(b)[i] = ":" => \E j \in 1..(i-1) : AfterPrefix(b)[j] = "@"

\* Standard padded base64: a multiple of four characters of the alphabet,
\* the last one or two of which may be '='.
ValidStdBase64(s) ==
  /\ Len(s) % 4 = 0
  /\ \E pad \in 0..2 :
       /\ pad <= Len(s)
       /\ \A i \in 1..(Len(s) - pad) : IsB64Char(s[i])
       /\ \A i \in (Len(s) - pad + 1)..Len(s) : s[i] = "="

\* C1: for every malformed claim response body Resolve returns a non-nil
\* error; it never returns the zero-value AccessToken with a nil error.
C1_MalformedFails ==
  (resolved # None /\ claimResp # None /\ Malformed(claimResp[1]))
    => resolved[1].err # "nil"

\* C2: for a body "https://" + A + "@" + H where A contains ':' and no '@',
\* Resolve returns nil error and Username, Password, Url such that
\* "https://" + Username + ":" + Password + "@" + Url is the body character
\* for character, Username holds no ':' and neither Username nor Password
\* holds an '@' (so the split is at the first ':' and the first '@', and
\* nothing is decoded).
C2_WellFormedParsed ==
  (resolved # None /\ claimResp # None /\ ~Malformed(claimResp[1]))
    => LET t == resolved[1].token
       IN  /\ resolved[1].err = "nil"
           /\ prefix \o t.Username \o <<":">> \o t.Password \o <<"@">> \o t.Url
                = claimResp[1]
           /\ ~Contains(t.Username, ":")
           /\ ~Contains(t.Username, "@")
           /\ ~Contains(t.Password, "@")

\* A response whose user name is the percent-escape %40 has been resolved.
C2_Witness ==
  /\ resolved # None
  /\ claimResp # None
  /\ resolved[1].err = "nil"
  /\ resolved[1].token.Username = <<"%", "4", "0">>

\* C3: when the setup token is not valid standard base64, Resolve returns a
\* non-nil error and the zero-value AccessToken, and http.Post is not called.
C3_InvalidBase64 ==
  (resolved # None /\ ~ValidStdBase64(setupToken))
    => /\ resolved[1].err # "nil"
       /\ resolved[1].token = ZeroAccessToken
       /\ posts = <<>>

\* Resolve has run on a four-character token holding a '!'.
C3_Witness ==
  /\ resolved # None
  /\ setupToken = <<"Q", "Q", "!", "=">>

(***************************************************************************)
(* Properties of SimpleFinRoundTripper.RoundTrip (SpecRT)                  *)
(***************************************************************************)
\* The request the wrapped transport was handed in the latest call.
Forwarded == call[1].sent[1]

\* C4: RoundTrip never mutates the caller's request: after any call its
\* method, URL and headers are what they were before the call, and the
\* request handed to the wrapped transport is another object, with another
\* header map, that carries the Basic-Auth header.
C4_CallerRequestUntouched ==
  call # None
    => /\ ReqContent(reqs, hdrs, call[1].req) = call[1].before
       /\ Forwarded.req # call[1].req
       /\ reqs[Forwarded.req].Header # reqs[call[1].req].Header
       /\ BasicAuth(Forwarded.seen.Header).ok

\* A call on a request without Authorization header that the transport
\* answered with an error.
C4_Witness ==
  /\ call # None
  /\ call[1].answer.err # "nil"
  /\ call[1].before.Header["Authorization"] = <<>>

\* C5 as stated: every forwarded request carries Basic-Auth credentials equal
\* to the configured username and password, for all credential values, and
\* RoundTrip returns what the transport answered.
C5_CredentialsCarried ==
  call # None
    => /\ BasicAuth(Forwarded.seen.Header) =
            [ok |-> TRUE, username |-> Bytes(rt.username),
             password |-> Bytes(rt.password)]
       /\ call[1].ret = call[1].answer

\* C5 amended: the same for every username that holds no ':' (the empty
\* string and strings of '@', '$', '!' included) and every password.
C5_CredentialsCarriedNoColon ==
  (call # None /\ ~Contains(rt.username, ":")) => C5_CredentialsCarried

\* A call with username "@" and the empty password.
C5_Witness ==
  /\ call # None
  /\ rt.username = <<"@">>
  /\ rt.password = <<>>

\* C6: RoundTrip forwards the request exactly once, to Base if non-nil and to
\* the default transport otherwise, and returns the transport's (response,
\* error) pair unchanged; on (nil, err) it returns (nil, err), and the
\* forwarded request carried Basic-Auth.
C6_ForwardedOnce ==
  call # None
    => /\ Len(call[1].sent) = 1
       /\ Forwarded.transport =
            (IF rt.Base # "nil" THEN rt.Base ELSE "DefaultTransport")
       /\ call[1].ret = call[1].answer
       /\ (call[1].answer.err # "nil"
             => call[1].ret.resp = None /\ call[1].ret.err = call[1].answer.err)
       /\ BasicAuth(Forwarded.seen.Header).ok

\* A call through a custom Base that answered (nil, err).
C6_Witness ==
  /\ call # None
  /\ rt.Base = "mockTransport"
  /\ call[1].answer.err # "nil"

\* C7: no RoundTrip call changes username, password or Base, and every
\* forwarded request carries the Authorization header of the first one.
C7_NoPerCallState ==
  /\ [][rt' = rt]_vars
  /\ [](call # None => Forwarded.seen.Header["Authorization"] = firstAuth[1])

\* A second call, failing, after a first one.
C7_Witness ==
  /\ nCalls = 2
  /\ call[1].answer.err # "nil"

(***************************************************************************)
(* Properties of SSOClient.InitiateLoginFlow (SpecLogin)                   *)
(***************************************************************************)
Ops(op) == {i \in DOMAIN calls : calls[i].op = op}

\* The flow got as far as the polling loop.
ReachedPolling == Ops("OpenURL") # {}

AllPending ==
  \A i \in Ops("CreateToken") : calls[i].out = "AuthorizationPendingException"

Exchanged == \E i \in Ops("CreateToken") : calls[i].out = "ok"

ExchangedBeforeExpiry ==
  \E i \in Ops("CreateToken") : calls[i].out = "ok" /\ calls[i].at < expiresAt

LaterStepsSucceeded ==
  /\ \E i \in Ops("GetRoleCredentials") : calls[i].out = "ok"
  /\ \E i \in Ops("storeCachedCredentials") : calls[i].out = "ok"
  /\ \E i \in Ops("CreateConfigWithCredentials") : calls[i].out = "ok"

\* While every attempt answers "pending" the flow does not end before the
\* authorization window has elapsed.
C8_PendingKeepsPolling ==
  (result # None /\ ReachedPolling /\ AllPending) => now >= expiresAt

\* An exchange that succeeds before expiry, followed by successful later
\* steps, ends the flow in success with a configuration.
C8_SuccessBeforeExpiry ==
  (ExchangedBeforeExpiry /\ LaterStepsSucceeded)
    => result = Some([Success |-> TRUE, Error |-> "nil", Config |-> TRUE])

\* C8 as stated: pending answers never end the flow early, a success before
\* expiry gives success, and a flow over with the window elapsed and no
\* successful exchange has failed with "device authorization expired".
C8_LoginFlowPolling ==
  /\ C8_PendingKeepsPolling
  /\ C8_SuccessBeforeExpiry
  /\ (result # None /\ ReachedPolling /\ now >= expiresAt /\ ~Exchanged)
       => result = Some(Failure("device authorization expired"))

\* C8 amended: as stated, but the expired failure is claimed only when every
\* exchange attempt answered "pending" (an attempt answered with another
\* error after the deadline ends the flow with the token-exchange failure).
C8_LoginFlowPollingAmended ==
  /\ C8_PendingKeepsPolling
  /\ C8_SuccessBeforeExpiry
  /\ (result # None /\ ReachedPolling /\ now >= expiresAt /\ AllPending)
       => result = Some(Failure("device authorization expired"))

\* The window elapsed after two attempts that answered "pending".
C8_Witness ==
  /\ pc = "Expired"
  /\ Cardinality(Ops("CreateToken")) >= 2

\* The failures that end the flow, and the stage each result names.
FatalFailure(c) ==
  \/ c.op \in {"RegisterClient", "StartDeviceAuthorization", "GetRoleCredentials"}
     /\ c.out = "err"
  \/ c.op = "CreateToken" /\ c.out \notin {"ok", "AuthorizationPendingException"}

StageError(op) ==
  CASE op = "RegisterClient" -> "failed to register client"
    [] op = "StartDeviceAuthorization" -> "failed to start device authorization"
    [] op = "CreateToken" -> "failed to create token"
    [] op = "GetRoleCredentials" -> "failed to get role credentials"

\* C9: a failed RegisterClient, StartDeviceAuthorization, non-pending
\* CreateToken or GetRoleCredentials is the last operation the flow performs,
\* and the flow is over with the failed result naming that stage.
C9_FatalStagesEndFlow ==
  \A i \in DOMAIN calls :
    FatalFailure(calls[i])
      => /\ i = Len(calls)
         /\ pc = "Failed"
         /\ result = Some(Failure(StageError(calls[i].op)))

\* An attempt answered "slow down" after one that answered "pending".
C9_Witness ==
  /\ pc = "Failed"
  /\ Cardinality(Ops("CreateToken")) = 2
  /\ calls[Len(calls)].out = "SlowDownException"

\* C10: a failed session-token cache write does not end the flow and the
\* next operation is the role-credential request; a failed role-credential
\* cache write ends it in failure, so the result is never Success then.
C10_CacheWriteFailures ==
  /\ \A i \in Ops("storeSSOToken") :
       calls[i].out = "err"
         => /\ i = Len(calls) => (pc = "TokenStored" /\ result = None)
            /\ i < Len(calls) => calls[i + 1].op = "GetRoleCredentials"
  /\ \A i \in Ops("storeCachedCredentials") :
       calls[i].out = "err"
         => /\ i = Len(calls)
            /\ result = Some(Failure("failed to cache credentials"))

\* A flow that succeeded although the session token could not be cached.
C10_Witness ==
  /\ pc = "Authorized"
  /\ result[1].Success
  /\ \E i \in Ops("storeSSOToken") : calls[i].out = "err"

\* The state of the flow's state machine that a program position belongs to:
\* everything from the first pass of the polling loop up to the return
\* statement that leaves it (lines 849-910) is Polling; a run aborted by a
\* panic inside the loop has reached no outcome and is still Polling.
Phase(p) ==
  IF p \in {"TokenCreated", "TokenStored", "RoleObtained", "RoleCached", "Crashed"}
  THEN "Polling" ELSE p

Outcomes == {"Authorized", "Expired", "Failed"}

\* One step of the state machine: the next state in the order, a stay in
\* Polling, a fatal failure out of any state before the outcome, or an
\* outcome out of Polling. No step leaves an outcome.
StepInOrder ==
  LET a == Phase(pc)
      b == Phase(pc')
  IN  \/ pc' = pc
      \/ a = "Idle" /\ b = "ClientRegistered"
      \/ a = "ClientRegistered" /\ b = "AuthorizationStarted"
      \/ a = "AuthorizationStarted" /\ b = "Polling"
      \/ a = "Polling" /\ b = "Polling"
      \/ a = "Polling" /\ b \in Outcomes
      \/ a \notin Outcomes /\ b = "Failed"

\* The session-token cache write comes before every role-credential request,
\* and a success result comes after a successful role-credential cache write
\* and is the last thing the flow does.
CacheWritesInOrder ==
  /\ \A j \in Ops("GetRoleCredentials") :
       \E i \in Ops("storeSSOToken") : i < j
  /\ \A k \in Ops("CreateConfigWithCredentials") :
       \E j \in Ops("storeCachedCredentials") : j < k /\ calls[j].out = "ok"
  /\ (result # None /\ result[1].Success)
       => /\ pc = "Authorized"
          /\ calls[Len(calls)] = [op |-> "CreateConfigWithCredentials",
                                  out |-> "ok", at |-> now]
          /\ \E i \in Ops("storeSSOToken"), j \in Ops("GetRoleCredentials"),
                k \in Ops("storeCachedCredentials") :
               i < j /\ j < k /\ k < Len(calls) /\ calls[k].out = "ok"

C12_ValidOnlyWhenProbed ==
  status # None
    => (status[1] = "Valid" <=> (cfgErr = None /\ probeErr = None))

\* A probe failed with a text the code does not recognise.
C12_Witness ==
  /\ status # None
  /\ cfgErr = None
  /\ probeErr = Some(<<"AccessDenied">>)

\* The substrings the claim names.
SaysExpired(t) ==
  \/ contains(t, <<"expired">>)
  \/ contains(t, <<"Expired", "Token">>)
  \/ contains(t, <<"refresh">>)

SaysNotFound(t) ==
  \/ contains(t, <<"NoCredentialProviders">>)
  \/ contains(t, <<"no valid credential">>)

\* The substrings that make a failed probe Expired.
ProbeSaysExpired(t) ==
  \/ contains(t, <<"Expired", "Token">>)
  \/ contains(t, <<"Token", "Expired">>)
  \/ contains(t, <<"InvalidGrantException">>)
  \/ contains(t, <<"refresh">>)

\* The classification of the claim applied to the text t.
ClassifiedAsClaimed(t, expired) ==
  IF expired THEN status[1] = "Expired"
  ELSE IF SaysNotFound(t) THEN status[1] = "NotFound"
  ELSE probeErr # None => status[1] = "Expired"

\* C13 as stated: a failure of the configuration or of the probe whose text
\* contains "expired", "ExpiredToken" or "refresh" yields Expired, before the
\* NotFound substrings are looked at; otherwise "NoCredentialProviders" or
\* "no valid credential" yields NotFound; any other probe failure yields
\* Expired.
C13_FailureClassified ==
  /\ (status # None /\ cfgErr # None)
       => ClassifiedAsClaimed(cfgErr[1], SaysExpired(cfgErr[1]))
  /\ (status # None /\ probeErr # None)
       => ClassifiedAsClaimed(probeErr[1], SaysExpired(probeErr[1]))

\* C13 amended: as stated for a failure of the configuration; for a failure
\* of the probe the substrings that yield Expired are "ExpiredToken",
\* "TokenExpired", "InvalidGrantException" and "refresh".
C13_FailureClassifiedPerStage ==
  /\ (status # None /\ cfgErr # None)
       => ClassifiedAsClaimed(cfgErr[1], SaysExpired(cfgErr[1]))
  /\ (status # None /\ probeErr # None)
       => ClassifiedAsClaimed(probeErr[1], ProbeSaysExpired(probeErr[1]))

\* A probe failure naming both an expired token and missing providers.
C13_Witness ==
  /\ status # None
  /\ probeErr = Some(<<"NoCredentialProviders", "Token", "Expired">>)

(***************************************************************************)
(* Properties of NewSSOClient and SSOClient.LoadSSOConfig (SpecConfig)     *)
(***************************************************************************)
\* The call read a config file.
Loaded == ssoRet # None /\ configFile # None

\* The header of the section the profile p is to be read from.
HeaderFor(p) ==
  IF p = <<"default">> THEN <<"[", "default", "]">>
  ELSE <<"[", "profile", " ">> \o p \o <<"]">>

\* The file has the section of the requested profile.
SectionExists == configFile[1].header = HeaderFor(client[1].profile)

\* The value the key lines ks give to key: that of its last line, <<>> when
\* no line has the key.
RECURSIVE ValueIn(_, _)
ValueIn(ks, key) ==
  IF ks = <<>> THEN <<>>
  ELSE IF ks[Len(ks)].key = key THEN ks[Len(ks)].value
  ELSE ValueIn(SubSeq(ks, 1, Len(ks) - 1), key)

Defines(ks, key) == \E i \in 1..Len(ks) : ks[i].key = key

\* C14: LoadSSOConfig returns an error when, after the profile section and
\* the referenced sso-session section are read, start URL, account id or
\* role name is empty, and when no line is the header of the requested
\* profile; it returns nil only when the section exists and the three
\* values are non-empty (account id and role name given by the section).
C14_IncompleteOrMissingFails ==
  Loaded =>
    LET c == client[1]
        err == ssoRet[1].err
        empty == c.startURL = <<>> \/ c.accountID = <<>> \/ c.roleName = <<>>
    IN  /\ ~SectionExists => err = "profile not found"
        /\ (SectionExists /\ empty) => err = "incomplete SSO configuration"
        /\ err = "nil" =>
             /\ SectionExists
             /\ ~empty
             /\ c.accountID = ValueIn(configFile[1].keys, "sso_account_id")
             /\ c.roleName = ValueIn(configFile[1].keys, "sso_role_name")
        /\ ssoRet[1].client = (ssoCall[1].via = "LoadSSOConfig" \/ err = "nil")

\* A section with start URL and account id but no role name was loaded.
C14_Witness ==
  /\ Loaded
  /\ SectionExists
  /\ client[1].startURL # <<>>
  /\ client[1].accountID # <<>>
  /\ client[1].roleName = <<>>
  /\ ssoRet[1].err # "nil"

\* The profile section was read and names the sso-session section of the file.
NamesSession ==
  /\ Loaded
  /\ SectionExists
  /\ configFile[1].session # None
  /\ ValueIn(configFile[1].keys, "sso_session") = <<"s">>

ProfileStartURL == ValueIn(configFile[1].keys, "sso_start_url")
SessionStartURL == ValueIn(configFile[1].session[1].keys, "sso_start_url")

\* C15 as stated: when the profile section names an sso_session and both
\* sections define sso_start_url, the start URL kept is the profile's, in
\* whatever order sections and keys come; the session's start URL is kept
\* only when the profile section defines none.
C15_ProfileStartURLWins ==
  NamesSession =>
    /\ (Defines(configFile[1].keys, "sso_start_url")
          /\ Defines(configFile[1].session[1].keys, "sso_start_url"))
         => client[1].startURL = ProfileStartURL
    /\ client[1].startURL = <<"https://y/start">>
         => ~Defines(configFile[1].keys, "sso_start_url")

\* C15 amended: the same with "defines a non-empty sso_start_url" for the
\* profile section: a profile start URL that is not empty is the one kept,
\* and the session's is kept only when the profile section gives none or an
\* empty one, in which case it is kept whenever the session defines one.
C15_NonEmptyProfileStartURLWins ==
  NamesSession =>
    /\ (ProfileStartURL # <<>>
          /\ Defines(configFile[1].session[1].keys, "sso_start_url"))
         => client[1].startURL = ProfileStartURL
    /\ client[1].startURL = <<"https://y/start">> => ProfileStartURL = <<>>
    /\ ProfileStartURL = <<>> => client[1].startURL = SessionStartURL

\* The session section comes first in the file and both sections give a
\* start URL.
C15_Witness ==
  /\ NamesSession
  /\ configFile[1].session[1].first
  /\ ProfileStartURL = <<"https://x/start">>
  /\ SessionStartURL = <<"https://y/start">>
  /\ ssoRet[1].err = "nil"

\* C16: the profile "default" is read from [default] and any other profile p
\* from [profile p], up to the next section header; when that section
\* defines sso_start_url, sso_account_id, sso_role_name and region the
\* loaded profile holds exactly these four values and nothing of another
\* section.
C16_SectionLoadedExactly ==
  (/\ Loaded
   /\ SectionExists
   /\ \A k \in {"sso_start_url", "sso_account_id", "sso_role_name", "region"} :
        ValueIn(configFile[1].keys, k) # <<>>)
    => /\ ssoRet[1].err = "nil"
       /\ client[1].startURL = ValueIn(configFile[1].keys, "sso_start_url")
       /\ client[1].accountID = ValueIn(configFile[1].keys, "sso_account_id")
       /\ client[1].roleName = ValueIn(configFile[1].keys, "sso_role_name")
       /\ client[1].region = ValueIn(configFile[1].keys, "region")

(***************************************************************************)
(* Properties of the cache writes (SpecCache)                              *)
(***************************************************************************)
\* The latest two calls were calls of the same function with the same
\* arguments, and both succeeded.
SameStoreTwice ==
  /\ Len(stores) = 2
  /\ stores[1].op = stores[2].op
  /\ stores[1].in = stores[2].in
  /\ stores[1].err = "nil"
  /\ stores[2].err = "nil"

SameContent == stores[2].file[1].data = stores[1].file[1].data

\* C17 as stated: two calls of storeSSOToken with the same access token and
\* expiry input, or of storeCachedCredentials with the same role
\* credentials, leave a file whose content after the second write is the
\* content after the first.
C17_StoreIdempotent == SameStoreTwice => SameContent

\* C17 amended: the same for storeCachedCredentials, and for storeSSOToken
\* when both calls are made within the same second of the clock (the file
\* holds the time of the call plus the expiry input, to the second).
C17_StoreIdempotentWithinSecond ==
  (/\ SameStoreTwice
   /\ stores[1].op = "storeSSOToken"
        => stores[1].at \div 2 = stores[2].at \div 2)
    => SameContent

\* Two successful storeSSOToken calls with the same arguments, half a second
\* apart within one second.
C17_Witness ==
  /\ SameStoreTwice
  /\ stores[1].op = "storeSSOToken"
  /\ stores[1].at = 0
  /\ stores[2].at = 1

\* C18: after a successful storeSSOToken or storeCachedCredentials the cache
\* file has the permissions 0600, whether it was absent before the call or
\* present with other permissions.
C18_OwnerOnlyAfterStore ==
  \A i \in DOMAIN stores :
    stores[i].err = "nil" => stores[i].file[1].mode = "0600"

(***************************************************************************)
(* Properties of the store command (SpecStore)                             *)
(***************************************************************************)
\* The credential the claim response b spells: https://U:P@H.
Spells(b, token) ==
  b = prefix \o token.username \o <<":">> \o token.password \o <<"@">> \o token.url

\* C19: the store command hands StoreAccessToken only a credential that
\* Resolve parsed from a well-formed claim response; when the claim response
\* is malformed the command returns an error and no secret is created or
\* updated.
C19_StoreOnlyParsedCredential ==
  cmdErr # None
    => /\ \A i \in DOMAIN smCalls :
            /\ claimResp # None
            /\ ~Malformed(claimResp[1])
            /\ Spells(claimResp[1], smCalls[i].value)
       /\ (claimResp # None /\ Malformed(claimResp[1]))
            => /\ cmdErr[1] # "nil"
               /\ smCalls = <<>>
               /\ secret \in OldSecrets

(***************************************************************************)
(* Properties of the sync run (SpecSync)                                   *)
(***************************************************************************)
DbWrites == {"PutBankAccount", "PutAccountBalance"}

CallsFor(i) == SelectSeq(syncLog, LAMBDA e : e.acct = i)

OpsOf(cs) == [k \in DOMAIN cs |-> cs[k].op]

\* The row PutAccountBalance writes for the account at index i in this run.
RowFor(i) ==
  [BANK_ACCOUNT_ID |-> accountsResp[1][i].ID,
   RUN_ID |-> jobUuid[1],
   BALANCE |-> accountsResp[1][i].Balance]

\* The rows of earlier runs came first: this run appended the rest.
RowsOfRun == SelectSeq(balances, LAMBDA r : jobUuid # None /\ r.RUN_ID = jobUuid[1])

LastCall == syncLog[Len(syncLog)]

\* What a step that calls PutBankAccount or PutAccountBalance follows.
WriteFollowsLookup ==
  (syncLog' # syncLog /\ syncLog' # <<>> /\ syncLog'[Len(syncLog')].op \in DbWrites)
    => /\ syncLog # <<>>
       /\ LastCall.ok
       /\ LastCall.acct = syncLog'[Len(syncLog')].acct
       /\ IF syncLog'[Len(syncLog')].op = "PutBankAccount"
          THEN LastCall.op = "DoesBankAccountExist" /\ ~exists
          ELSE \/ LastCall.op = "PutBankAccount"
               \/ LastCall.op = "DoesBankAccountExist" /\ exists

CompletedInOrder ==
  exitCode = Some(0)
    => /\ accountsResp # None
       /\ jobUuid # None
       /\ \A k \in 1..(Len(syncLog) - 1) : syncLog[k].acct <= syncLog[k + 1].acct
       /\ \A i \in DOMAIN accountsResp[1] :
            OpsOf(CallsFor(i)) \in
              {<<"DoesBankAccountExist", "PutAccountBalance">>,
               <<"DoesBankAccountExist", "PutBankAccount", "PutAccountBalance">>}
       /\ RowsOfRun = [i \in DOMAIN accountsResp[1] |-> RowFor(i)]
       /\ SubSeq(balances, Len(balances) - Len(RowsOfRun) + 1, Len(balances)) = RowsOfRun

BalanceForStoredAccount ==
  (syncLog' # syncLog /\ syncLog' # <<>>
     /\ syncLog'[Len(syncLog')].op = "PutAccountBalance")
    => /\ accountsResp[1][syncLog'[Len(syncLog')].acct].ID \in bankAccounts
       /\ \/ exists /\ LastCall.op = "DoesBankAccountExist"
          \/ LastCall = [op |-> "PutBankAccount",
                         acct |-> syncLog'[Len(syncLog')].acct, ok |-> TRUE]

\* C30: over any number of runs, finished or stopped by an error, every
\* PutAccountBalance call of main is for an ID that is in BANK_ACCOUNT when
\* the call is made, and every row of BANK_ACCOUNT_BALANCE names an ID of
\* BANK_ACCOUNT.
C30_BalanceRefersToAccount ==
  /\ [][BalanceForStoredAccount]_vars
  /\ [](\A k \in DOMAIN balances : balances[k].BANK_ACCOUNT_ID \in bankAccounts)

\* The second run wrote a balance after the first run wrote one.
C30_Witness ==
  /\ runs = 2
  /\ Len(balances) >= 2
  /\ balances[1].RUN_ID # balances[Len(balances)].RUN_ID
  /\ syncLog # <<>>
  /\ LastCall.op = "PutAccountBalance"
  /\ LastCall.ok

(***************************************************************************)
(* Properties of SimpleFinClient.GetAccounts (SpecAccounts)                *)
(***************************************************************************)
\* C22: when the server answers with an HTTP error status, GetAccounts
\* returns a non-nil error, whatever the body is.
C22_HTTPErrorIsError ==
  (getRet # None /\ httpResp.err = "nil" /\ httpResp.StatusCode >= 400)
    => getRet[1].err # "nil"

\* The JSON text of the credential Resolve returned.
IsJsonOfResolved(v) ==
  /\ resolved # None
  /\ v.username = resolved[1].token.Username
  /\ v.password = resolved[1].token.Password
  /\ v.url = resolved[1].token.Url

\* C23: StoreAccessToken calls CreateSecret first, with the JSON of the
\* token; it calls UpdateSecret only after CreateSecret failed, with the same
\* name and the same JSON; it returns nil exactly when one of the two
\* succeeded, and an error when both failed.
C23_CreateThenUpdate ==
  smCalls # <<>>
    => /\ Len(smCalls) \in {1, 2}
       /\ smCalls[1].op = "CreateSecret"
       /\ smCalls[1].name = secretName
       /\ IsJsonOfResolved(smCalls[1].value)
       /\ Len(smCalls) = 2 <=> ~smCalls[1].ok
       /\ Len(smCalls) = 2
            => /\ smCalls[2].op = "UpdateSecret"
               /\ smCalls[2].name = smCalls[1].name
               /\ smCalls[2].value = smCalls[1].value
       /\ cmdErr # None
       /\ cmdErr[1] = "nil" <=> \E k \in DOMAIN smCalls : smCalls[k].ok
       /\ cmdErr[1] = "failed to store access token"
            <=> \A k \in DOMAIN smCalls : ~smCalls[k].ok
       /\ (\E k \in DOMAIN smCalls : smCalls[k].ok)
            <=> (secret # None /\ IsJsonOfResolved(secret[1]))

\* CreateSecret failed on the secret of an earlier run and UpdateSecret
\* replaced it.
C23_Witness ==
  /\ Len(smCalls) = 2
  /\ ~smCalls[1].ok
  /\ smCalls[2].ok
  /\ cmdErr = Some("nil")
  /\ resolved[1].token.Username # <<>>

\* C24 as stated: every CreateToken attempt is made before the deadline
\* (start time + ExpiresIn).
C24_AttemptsBeforeDeadline ==
  \A i \in Ops("CreateToken") : calls[i].at < expiresAt

\* C24 amended: the deadline is tested before the wait, not before the
\* attempt: every CreateToken attempt follows a wait of one interval that
\* began before the deadline, so it is made less than one interval after it.
C24_AttemptsWithinIntervalOfDeadline ==
  \A i \in Ops("CreateToken") :
    /\ calls[i].at - interval < expiresAt
    /\ calls[i].at >= interval

\* An attempt made once the window had elapsed.
C24_Witness ==
  \E i \in Ops("CreateToken") :
    /\ calls[i].at >= expiresAt
    /\ calls[i].at - interval < expiresAt

\* The flow has ended: it returned a result, or the run was aborted.
LoginOver == result # None \/ pc = "Crashed"

C28_EveryOutcomeInResult ==
  /\ LoginOver => result # None
  /\ result # None
       => /\ result[1].Success <=> result[1].Error = "nil"
          /\ result[1].Success
               => /\ \E i \in Ops("GetRoleCredentials") : calls[i].out = "ok"
                  /\ \E i \in Ops("storeCachedCredentials") : calls[i].out = "ok"

\* A field the role-credential response lacks.
LacksField(r) ==
  ~(r.RoleCredentials /\ r.AccessKeyId /\ r.SecretAccessKey /\ r.SessionToken)

\* C29: when the role-credential response lacks the access key id, the
\* secret access key or the session token, the flow ends in the failure
\* "invalid role credentials", no role-credential cache file is written, and
\* no missing field is dereferenced.
C29_MissingFieldFailsCleanly ==
  (roleResp # None /\ LacksField(roleResp[1]))
    => /\ pc # "Crashed"
       /\ \A i \in Ops("storeCachedCredentials") : calls[i].out # "ok"
       /\ LoginOver => result = Some(Failure("invalid role credentials"))

(***************************************************************************)
(* Properties of NewSecretsManagerClientWithSSO (SpecWithSSO)              *)
(***************************************************************************)
LoginStarted == calls # <<>>

\* C25: the login flow is started if and only if CheckCredentialStatus
\* reported Expired or NotFound; with Valid no flow is started and the client
\* is built from the configuration of the profile; a client is returned only
\* when the status was Valid and that configuration loaded, or the flow ended
\* in success, and then it is built from the configuration of the flow.
C25_LoginIffExpiredOrNotFound ==
  /\ LoginStarted => (status # None /\ status[1] \in {"Expired", "NotFound"})
  /\ (smRet # None /\ status[1] \in {"Expired", "NotFound"})
       => (LoginStarted /\ result # None)
  /\ (smRet # None /\ smRet.client # None)
       => /\ smRet.err = "nil"
          /\ \/ /\ status = Some("Valid")
                /\ ~LoginStarted
                /\ smRet.client[1].config = "CreateConfigWithSSO"
             \/ /\ status[1] \in {"Expired", "NotFound"}
                /\ result # None
                /\ result[1].Success
                /\ smRet.client[1].config = "authResult.Config"
  /\ (smRet # None /\ smRet.client = None) => smRet.err # "nil"

\* Missing credentials: the flow ran to success and the client was built
\* from its configuration.
C25_Witness ==
  /\ status = Some("NotFound")
  /\ smRet # None
  /\ smRet.client = Some([config |-> "authResult.Config"])
  /\ pc = "Authorized"

\* C27: CheckCredentialStatus returns Valid, Expired or NotFound for every
\* outcome of the configuration loading and of the probe, never Error (and
\* no Go error), and NewSecretsManagerClientWithSSO starts the login flow
\* for every status other than Valid.
C27_StatusTotal ==
  /\ status # None => status[1] \in {"Valid", "Expired", "NotFound"}
  /\ (status # None /\ status[1] # "Valid" /\ (smRet # None \/ pc # "Idle"))
       => Ops("RegisterClient") # {}
  /\ (status # None /\ status[1] # "Valid" /\ smRet # None) => result # None

\* An unrecognised probe failure counted as Expired and the flow was started.
C27_Witness ==
  /\ probeErr = Some(<<"AccessDenied">>)
  /\ status = Some("Expired")
  /\ Ops("RegisterClient") # {}
  /\ smRet # None

====
